---- MODULE Spec2Model ----
(***************************************************************************)
(* Rice Monitor API: the authorization gate, the token service, the        *)
(* identity resolver and the resource handlers (users, fields,             *)
(* submissions, images) over the document store and the blob store.        *)
(*                                                                         *)
(* Strings the code slices (ids, file names, the Authorization header)     *)
(* are sequences of parts, so that prefix and suffix tests are computed.   *)
(* Time is counted in hours.                                               *)
(***************************************************************************)
EXTENDS Integers, Sequences, FiniteSets, TLC

VARIABLES
    users,      \* collection "users":       doc id -> document
    fields,     \* collection "fields":      doc id -> document
    subs,       \* collection "submissions": doc id -> document
    blobs,      \* object names held by the storage bucket
    issued,     \* the identities the server has issued tokens to, and since when
    now,        \* the server clock (hours)
    idCounter,  \* number of ids GenerateID has produced, per collection
    uploads,    \* requests in flight: UploadImage inside the append transaction,
                \* UpdateSubmission between its read and its write
    resp        \* the response to the last request served

vars == <<users, fields, subs, blobs, issued, now, idCounter, uploads, resp>>

----------------------------------------------------------------------------
(* Bounds of the model *)

MaxTime == 1
MaxDocs == 2
MaxImages == 2
MaxUploads == 2
MaxSeeded == 7

----------------------------------------------------------------------------
(* Program constants *)

AccessTTL == 1
RefreshTTL == 168
DefaultLimit == 20
RecentLimit == 5

jwtSecret == "your-secret-key"
OtherSecret == "attacker-key"

----------------------------------------------------------------------------
(* Strings *)

Digits == <<"1", "2", "3", "4", "5", "6", "7", "8", "9">>

UuidPrefix == <<"u", "u", "i", "d", "-">>
TempPrefix == <<"t", "e", "m", "p", "_">>

\* The ids of the documents the store holds at start: three accounts, a
\* field and a submission.
AdminID == UuidPrefix \o <<"u", "1">>
ObserverID == UuidPrefix \o <<"u", "2">>
OtherID == UuidPrefix \o <<"u", "3">>
FieldID == UuidPrefix \o <<"f", "1">>
SubmissionID == UuidPrefix \o <<"s", "1">>

\* utils.GenerateID: a UUID no earlier call gave. kind is the collection the
\* id is made for ("u", "f", "s", or "i" for an object name).
GenerateID(kind) == UuidPrefix \o <<kind, Digits[idCounter[kind] + 1]>>

Count(kind) == [idCounter EXCEPT ![kind] = @ + 1]

\* Documents created since start.
Created == idCounter["u"] + idCounter["f"] + idCounter["s"] - 5

HasSuffix(s, suf) ==
    Len(s) >= Len(suf) /\ SubSeq(s, Len(s) - Len(suf) + 1, Len(s)) = suf

\* strings.TrimPrefix on a header given as its parts.
TrimPrefix(s, p) == IF Len(s) > 0 /\ Head(s) = p THEN Tail(s) ELSE s

Range(f) == {f[i] : i \in DOMAIN f}

Max(S) == CHOOSE x \in S : \A y \in S : y <= x

----------------------------------------------------------------------------
(* Documents *)

Roles == {"admin", "researcher", "observer"}
Statuses == {"submitted", "under_review", "approved", "rejected"}

NoDoc == [missing |-> TRUE]

\* DocumentRef.Get finds a document.
Exists(coll, id) == id \in DOMAIN coll

\* DocumentRef.Set: create or replace the whole document.
Set(coll, id, doc) ==
    [k \in DOMAIN coll \cup {id} |-> IF k = id THEN doc ELSE coll[k]]

\* DocumentRef.Delete
Delete(coll, id) == [k \in DOMAIN coll \ {id} |-> coll[k]]

\* DocumentSnapshot.DataTo: decode a document into a struct; keys the struct
\* does not have are dropped, keys the document lacks keep the zero value.
DataTo(doc, zero) ==
    [k \in DOMAIN zero |-> IF k \in DOMAIN doc THEN doc[k] ELSE zero[k]]

ZeroUser ==
    [id |-> <<>>, email |-> "", name |-> "", picture |-> "", role |-> "",
     created_at |-> 0, updated_at |-> 0, last_login_at |-> 0]

ZeroField ==
    [id |-> <<>>, name |-> "", location |-> "", rice_variety |-> "",
     tentative_date |-> "", coordinates |-> [latitude |-> 0, longitude |-> 0],
     area |-> 0, owner_id |-> <<>>, created_at |-> 0, updated_at |-> 0]

ZeroSubmission ==
    [id |-> <<>>, user_id |-> <<>>, field_id |-> <<>>, date |-> 0,
     growth_stage |-> "", plant_conditions |-> <<>>,
     trait_measurements |-> [culm_length |-> 0, panicle_length |-> 0,
                             panicles_per_hill |-> 0, hills_observed |-> 0],
     notes |-> "", observer_name |-> "", images |-> <<>>, status |-> "",
     created_at |-> 0, updated_at |-> 0]

\* A Go map ranged over: its keys in some order.
RECURSIVE KeysInOrder(_)
KeysInOrder(S) ==
    IF S = {} THEN <<>>
    ELSE LET k == CHOOSE x \in S : TRUE IN <<k>> \o KeysInOrder(S \ {k})

\* The document store refuses an update list that names a field path twice
\* and an update of a document that does not exist.
DistinctPathsAny(updates) == TRUE

DistinctPaths(updates) ==
    \A i, j \in DOMAIN updates : i /= j => updates[i].Path /= updates[j].Path

Merge(doc, updates) ==
    LET paths == {updates[i].Path : i \in DOMAIN updates}
        val(p) == updates[CHOOSE i \in DOMAIN updates : updates[i].Path = p].Value
    IN [k \in DOMAIN doc \cup paths |-> IF k \in paths THEN val(k) ELSE doc[k]]

\* DocumentRef.Update: [err, coll] with coll the collection afterwards.
UpdateOrCreate(coll, id, updates) ==
    [err |-> FALSE,
     coll |-> Set(coll, id, Merge(IF Exists(coll, id) THEN coll[id] ELSE [k \in {} |-> 0],
                                  updates))]

Update(coll, id, updates) ==
    IF ~Exists(coll, id) \/ ~DistinctPaths(updates) \/ Len(updates) = 0
    THEN [err |-> TRUE, coll |-> coll]
    ELSE [err |-> FALSE, coll |-> Set(coll, id, Merge(coll[id], updates))]

----------------------------------------------------------------------------
(* Token service (utils.go) *)

HMACAlgs == {"HS256", "HS384", "HS512"}

\* An HMAC over the signing input: equal exactly for the same key and input.
Sign(key, header, claims) == [key |-> key, header |-> header, claims |-> claims]

\* jwt.NewWithClaims(SigningMethodHS256, claims).SignedString(key): the three
\* segments of the token string.
SignedString(claims, key) ==
    LET header == [alg |-> "HS256", typ |-> "JWT"]
    IN <<header, claims, Sign(key, header, claims)>>

\* The Claims literal of GenerateTokens, made at hour t.
Claims(user, ttl, t) ==
    [user_id |-> user.id, email |-> user.email, role |-> user.role,
     exp |-> t + ttl, iat |-> t]

\* GenerateTokens run at hour t (time.Now() read as t).
GenerateTokensAdmin(user, t) ==
    [access  |-> SignedString([Claims(user, AccessTTL, t) EXCEPT !.role = "admin"],
                              jwtSecret),
     refresh |-> SignedString(Claims(user, RefreshTTL, t), jwtSecret)]

GenerateTokensAt(user, t) ==
    [access  |-> SignedString(Claims(user, AccessTTL, t), jwtSecret),
     refresh |-> SignedString(Claims(user, RefreshTTL, t), jwtSecret)]

GenerateTokens(user) == GenerateTokensAt(user, now)

\* RegisteredClaims.Valid at the server's clock.
ClaimsValid(claims) == now < claims.exp /\ claims.iat <= now

NoClaims == [err |-> TRUE]

ValidateToken(tokenString) ==
    IF Len(tokenString) /= 3 THEN NoClaims
    ELSE IF tokenString[1].alg \notin HMACAlgs THEN NoClaims
    ELSE IF tokenString[3] /= Sign(jwtSecret, tokenString[1], tokenString[2])
    THEN NoClaims
    ELSE IF ~ClaimsValid(tokenString[2]) THEN NoClaims
    ELSE [err |-> FALSE, claims |-> tokenString[2]]

\* Token strings clients hold. A client that has logged in can log in or
\* refresh again at any later hour, so it holds the access tokens of every
\* hour since its first login, and the refresh token of that login.
Held ==
    UNION {{GenerateTokensAt(i, t).access : t \in i.since..now} : i \in issued} \cup
    {GenerateTokensAt(i, i.since).refresh : i \in issued}

\* Token strings a client can put in a request: the ones it holds, a held
\* token with its claims edited, the same claims signed under another key or
\* declared with another algorithm, and text that is no token.
Resigned(t) == SignedString(t[2], OtherSecret)
WithAlgNone(t) == <<[alg |-> "none", typ |-> "JWT"], t[2], t[3]>>
Edited(t) == <<t[1], [t[2] EXCEPT !.exp = MaxTime + 1, !.role = "admin"], t[3]>>
Garbage == <<"garbage">>

Refresh == {GenerateTokensAt(i, i.since).refresh : i \in issued}

\* One of the refresh tokens held: the token the forgeries start from, and
\* the refresh token tried as a bearer token.
Some == IF Refresh = {} THEN {} ELSE {CHOOSE t \in Refresh : TRUE}

Forged ==
    {Edited(t) : t \in Some} \cup {Resigned(t) : t \in Some}
                             \cup {WithAlgNone(t) : t \in Some} \cup {Garbage}

Presentable == Held \cup Forged

\* Authorization header values, as parts.
Headers ==
    {<<>>, Garbage} \cup {<<"Bearer ">> \o t : t \in Presentable \ Refresh}
                    \cup {<<"Bearer ">> \o t : t \in Refresh \cap Some}
                    \cup {<<"Basic ">> \o t : t \in Some}

----------------------------------------------------------------------------
(* Authorization gate (middleware) *)

Denied(message) ==
    [ok |-> FALSE, status |-> 401, error |-> "unauthorized", message |-> message]

RequireAuthTrustToken(authHeader) ==
    IF authHeader = <<>> THEN Denied("Authorization header required")
    ELSE LET tokenString == TrimPrefix(authHeader, "Bearer ") IN
    IF tokenString = authHeader THEN Denied("Bearer token required")
    ELSE LET v == ValidateToken(tokenString) IN
    IF v.err THEN Denied("Invalid token")
    ELSE LET user == [ZeroUser EXCEPT !.id = v.claims.user_id,
                                      !.email = v.claims.email,
                                      !.role = v.claims.role]
         IN [ok |-> TRUE,
             ctx |-> [user |-> user, user_id |-> user.id, user_role |-> user.role]]

RequireAuth(authHeader) ==
    IF authHeader = <<>> THEN Denied("Authorization header required")
    ELSE LET tokenString == TrimPrefix(authHeader, "Bearer ") IN
    IF tokenString = authHeader THEN Denied("Bearer token required")
    ELSE LET v == ValidateToken(tokenString) IN
    IF v.err THEN Denied("Invalid token")
    ELSE IF ~Exists(users, v.claims.user_id) THEN Denied("User not found")
    ELSE LET user == DataTo(users[v.claims.user_id], ZeroUser)
         IN [ok |-> TRUE,
             ctx |-> [user |-> user, user_id |-> user.id, user_role |-> user.role]]

----------------------------------------------------------------------------
(* Responses *)

NoCtx == [none |-> TRUE]

\* No response is being written: the server is between requests.
NoResponse ==
    [op |-> "none", ran |-> FALSE, ctx |-> NoCtx, status |-> 0,
     error |-> "", target |-> <<>>, data |-> <<>>]

\* A response written by the gate: the handler did not run.
GateResponse(op, a) ==
    [op |-> op, ran |-> FALSE, ctx |-> NoCtx, status |-> a.status,
     error |-> a.error, target |-> <<>>, data |-> <<>>]

\* A response written by the handler of route op: the context the gate set,
\* the status and error kind, the id the request named and the data answered.
\* For an Update the store refused, data is the update list it was handed.
Response(op, ctx, status, error, target, data) ==
    [op |-> op, ran |-> TRUE, ctx |-> ctx, status |-> status,
     error |-> error, target |-> target, data |-> data]

\* Requests are served one at a time, except for the append transactions in
\* flight: a request is taken up once the last response has gone out.
Idle == resp = NoResponse

\* The gate answered: nothing behind it runs.
Rejected(op, a) ==
    /\ resp' = GateResponse(op, a)
    /\ UNCHANGED <<users, fields, subs, blobs, issued, now, idCounter, uploads>>

\* Document names in the order the store lists them.
IdOrder(id) == CHOOSE k \in DOMAIN Digits : Digits[k] = id[Len(id)]

RECURSIVE InNameOrder(_)
InNameOrder(S) ==
    IF S = {} THEN <<>>
    ELSE LET m == CHOOSE x \in S : \A y \in S : IdOrder(x) <= IdOrder(y)
         IN <<m>> \o InNameOrder(S \ {m})

UnknownID == UuidPrefix \o <<"x", "9">>

----------------------------------------------------------------------------
(* Identity resolver and session endpoints (AuthHandler) *)

\* The Google accounts that log in: one the store knows, one it does not.
Emails == {"a@example.com", "c@example.com"}

\* The users collection at start: an administrator and two observers, all
\* created by earlier logins (the administrator's role set in the store).
Seeded ==
    (AdminID :> [id |-> AdminID, email |-> "admin@example.com", name |-> "name",
                 picture |-> "picture", role |-> "admin", created_at |-> 0,
                 updated_at |-> 0, last_login_at |-> 0])
    @@ (ObserverID :> [id |-> ObserverID, email |-> "a@example.com", name |-> "name",
                       picture |-> "picture", role |-> "observer", created_at |-> 0,
                       updated_at |-> 0, last_login_at |-> 0])
    @@ (OtherID :> [id |-> OtherID, email |-> "b@example.com", name |-> "name",
                    picture |-> "picture", role |-> "observer", created_at |-> 0,
                    updated_at |-> 0, last_login_at |-> 0])

\* The fields and submissions collections at start: a field of the observer
\* and a submission of theirs on it, as CreateField and CreateSubmission
\* store them.
SeededFields ==
    FieldID :> [ZeroField EXCEPT !.id = FieldID, !.name = "Plot 1",
                                 !.location = "North block",
                                 !.owner_id = ObserverID]

SeededSubmissions ==
    SubmissionID :> [ZeroSubmission EXCEPT !.id = SubmissionID,
                                           !.user_id = ObserverID,
                                           !.field_id = FieldID,
                                           !.date = 1,
                                           !.growth_stage = "Seedling",
                                           !.observer_name = "Observer",
                                           !.status = "submitted"]

\* POST /auth/google bodies: no token, a token Google does not vouch for,
\* and a verified identity assertion for each account.
GoogleTokens ==
    {[present |-> FALSE, valid |-> FALSE, email |-> ""],
     [present |-> TRUE, valid |-> FALSE, email |-> "a@example.com"]}
    \cup {[present |-> TRUE, valid |-> TRUE, email |-> e] : e \in Emails}

GoogleUserInfo(payload) ==
    [Email |-> payload.email, Name |-> "name", Picture |-> "picture"]

\* getOrCreateUser: [user, users] with users the collection afterwards.
getOrCreateUserAlways(tokenInfo) ==
    LET user == [id |-> GenerateID("u"), email |-> tokenInfo.Email,
                 name |-> tokenInfo.Name, picture |-> tokenInfo.Picture,
                 role |-> "observer", created_at |-> now,
                 updated_at |-> now, last_login_at |-> now]
    IN [user |-> user, users |-> Set(users, user.id, user), created |-> TRUE]

getOrCreateUser(tokenInfo) ==
    LET docs == InNameOrder({id \in DOMAIN users : users[id].email = tokenInfo.Email})
    IN IF Len(docs) > 0
       THEN [user |-> DataTo(users[docs[1]], ZeroUser), users |-> users, created |-> FALSE]
       ELSE LET user == [id |-> GenerateID("u"), email |-> tokenInfo.Email,
                         name |-> tokenInfo.Name, picture |-> tokenInfo.Picture,
                         role |-> "observer", created_at |-> now,
                         updated_at |-> now, last_login_at |-> now]
            IN [user |-> user, users |-> Set(users, user.id, user), created |-> TRUE]

\* issued after tokens for user are handed out.
Handed(user) ==
    IF \E i \in issued : i.id = user.id /\ i.email = user.email /\ i.role = user.role
    THEN issued
    ELSE issued \cup {[id |-> user.id, email |-> user.email, role |-> user.role,
                       since |-> now]}

updateUserLastLogin(coll, userID) ==
    Update(coll, userID, <<[Path |-> "last_login_at", Value |-> now]>>).coll

GoogleLogin(req) ==
    /\ Idle
    /\ UNCHANGED <<fields, subs, blobs, now, uploads>>
    /\ IF ~req.present
       THEN /\ resp' = Response("GoogleLogin", NoCtx, 400, "invalid_request", <<>>, <<>>)
            /\ UNCHANGED <<users, issued, idCounter>>
       ELSE IF ~req.valid
       THEN /\ resp' = Response("GoogleLogin", NoCtx, 401, "invalid_token", <<>>, <<>>)
            /\ UNCHANGED <<users, issued, idCounter>>
       ELSE LET r == getOrCreateUser(GoogleUserInfo(req))
                tokens == GenerateTokens(r.user)
                user == [r.user EXCEPT !.last_login_at = now]
            IN /\ r.created => Created < MaxDocs
               /\ users' = updateUserLastLogin(r.users, user.id)
               /\ idCounter' = IF r.created THEN Count("u") ELSE idCounter
               /\ issued' = Handed(r.user)
               /\ resp' = Response("GoogleLogin", NoCtx, 200, "", user.id,
                                   [user |-> user, access_token |-> tokens.access,
                                    refresh_token |-> tokens.refresh,
                                    expires_in |-> 3600])

\* GoogleLogin as the two steps other logins can come between: up to the
\* email lookup of getOrCreateUser (lines 40-221), the request in flight
\* told from the others by its number ...
GoogleLoginBegin(req) ==
    /\ Idle
    /\ UNCHANGED <<fields, subs, blobs, now>>
    /\ IF ~req.present
       THEN /\ resp' = Response("GoogleLogin", NoCtx, 400, "invalid_request", <<>>, <<>>)
            /\ UNCHANGED <<users, issued, idCounter, uploads>>
       ELSE IF ~req.valid
       THEN /\ resp' = Response("GoogleLogin", NoCtx, 401, "invalid_token", <<>>, <<>>)
            /\ UNCHANGED <<users, issued, idCounter, uploads>>
       ELSE LET r == getOrCreateUser(GoogleUserInfo(req)) IN
       IF ~r.created
       THEN LET tokens == GenerateTokens(r.user)
                user == [r.user EXCEPT !.last_login_at = now]
            IN /\ users' = updateUserLastLogin(r.users, user.id)
               /\ issued' = Handed(r.user)
               /\ resp' = Response("GoogleLogin", NoCtx, 200, "", user.id,
                                   [user |-> user, access_token |-> tokens.access,
                                    refresh_token |-> tokens.refresh,
                                    expires_in |-> 3600])
               /\ UNCHANGED <<idCounter, uploads>>
       ELSE /\ Cardinality(uploads) < MaxUploads
            /\ uploads' = uploads \cup
                  {[pc |-> "login", ctx |-> NoCtx, submissionID |-> <<>>,
                    filename |-> <<>>, imageURL |-> <<>>,
                    read |-> [tokenInfo |-> GoogleUserInfo(req),
                              request |->
                                 CHOOSE n \in 1..MaxUploads :
                                    \A v \in uploads :
                                       v.pc = "login" => v.read.request /= n],
                    write |-> NoDoc]}
            /\ UNCHANGED <<users, issued, idCounter, resp>>

\* ... and from the creation of the user on (lines 224-241, 77-103), for a
\* login whose lookup found no user.
GoogleLoginEnd(u) ==
    /\ Idle
    /\ u.pc = "login"
    /\ Created < MaxDocs
    /\ UNCHANGED <<fields, subs, blobs, now>>
    /\ LET tokenInfo == u.read.tokenInfo
           created == [id |-> GenerateID("u"), email |-> tokenInfo.Email,
                       name |-> tokenInfo.Name, picture |-> tokenInfo.Picture,
                       role |-> "observer", created_at |-> now,
                       updated_at |-> now, last_login_at |-> now]
           r == [user |-> created, users |-> Set(users, created.id, created)]
           tokens == GenerateTokens(r.user)
           user == [r.user EXCEPT !.last_login_at = now]
       IN /\ users' = updateUserLastLogin(r.users, user.id)
          /\ idCounter' = Count("u")
          /\ issued' = Handed(r.user)
          /\ uploads' = uploads \ {u}
          /\ resp' = Response("GoogleLogin", NoCtx, 200, "", user.id,
                              [user |-> user, access_token |-> tokens.access,
                               refresh_token |-> tokens.refresh,
                               expires_in |-> 3600])

\* POST /auth/refresh: req is the refresh_token of the body, <<>> when absent.
RefreshToken(req) ==
    /\ Idle
    /\ UNCHANGED <<users, fields, subs, blobs, now, idCounter, uploads>>
    /\ IF req = <<>>
       THEN /\ resp' = Response("RefreshToken", NoCtx, 400, "invalid_request", <<>>, <<>>)
            /\ UNCHANGED issued
       ELSE LET v == ValidateToken(req) IN
       IF v.err
       THEN /\ resp' = Response("RefreshToken", NoCtx, 401, "invalid_token", <<>>, <<>>)
            /\ UNCHANGED issued
       ELSE IF ~Exists(users, v.claims.user_id)
       THEN /\ resp' = Response("RefreshToken", NoCtx, 404, "user_not_found", <<>>, <<>>)
            /\ UNCHANGED issued
       ELSE LET user == DataTo(users[v.claims.user_id], ZeroUser)
                tokens == GenerateTokens(user)
            IN /\ issued' = Handed(user)
               /\ resp' = Response("RefreshToken", NoCtx, 200, "", user.id,
                                   [user |-> user, access_token |-> tokens.access,
                                    refresh_token |-> tokens.refresh,
                                    expires_in |-> 3600])

LogoutRevoking(authHeader) ==
    /\ Idle
    /\ LET a == RequireAuth(authHeader) IN
       IF ~a.ok THEN Rejected("Logout", a)
       ELSE /\ resp' = Response("Logout", a.ctx, 200, "", <<>>, <<>>)
            /\ users' = Delete(users, a.ctx.user_id)
            /\ UNCHANGED <<fields, subs, blobs, issued, now, idCounter, uploads>>

Logout(authHeader) ==
    /\ Idle
    /\ LET a == RequireAuth(authHeader) IN
       IF ~a.ok THEN Rejected("Logout", a)
       ELSE /\ resp' = Response("Logout", a.ctx, 200, "", <<>>, <<>>)
            /\ UNCHANGED <<users, fields, subs, blobs, issued, now, idCounter, uploads>>

GetCurrentUser(authHeader) ==
    /\ Idle
    /\ LET a == RequireAuth(authHeader) IN
       IF ~a.ok THEN Rejected("GetCurrentUser", a)
       ELSE /\ resp' = IF "user" \in DOMAIN a.ctx
                       THEN Response("GetCurrentUser", a.ctx, 200, "", <<>>, a.ctx.user)
                       ELSE Response("GetCurrentUser", a.ctx, 401, "unauthorized", <<>>, <<>>)
            /\ UNCHANGED <<users, fields, subs, blobs, issued, now, idCounter, uploads>>

----------------------------------------------------------------------------
(* Users (UserHandler) *)

\* The update list the Update handlers hand to the store: updated_at first,
\* then one entry per key left in the payload.
UpdateList(updateData) ==
    <<[Path |-> "updated_at", Value |-> now]>>
    \o [i \in 1..Cardinality(DOMAIN updateData) |->
          [Path |-> KeysInOrder(DOMAIN updateData)[i],
           Value |-> updateData[KeysInOrder(DOMAIN updateData)[i]]]]

\* delete(updateData, key) for each key of a set.
Without(updateData, keys) ==
    [k \in DOMAIN updateData \ keys |-> updateData[k]]

\* updateData[key] = value
With(updateData, key, value) ==
    [k \in DOMAIN updateData \cup {key} |-> IF k = key THEN value ELSE updateData[k]]

\* PUT /users/:id bodies: a change of name, and one that also names the
\* protected keys and the role.
UserPayloads ==
    {[name |-> "new name"],
     [id |-> UnknownID, email |-> "b@example.com", created_at |-> MaxTime + 1,
      role |-> "admin", picture |-> "new picture"]}

GetUser(authHeader, userID) ==
    /\ Idle
    /\ LET a == RequireAuth(authHeader) IN
       IF ~a.ok THEN Rejected("GetUser", a)
       ELSE LET currentUserObj == a.ctx.user IN
         /\ UNCHANGED <<users, fields, subs, blobs, issued, now, idCounter, uploads>>
         /\ resp' =
              IF currentUserObj.id /= userID /\ currentUserObj.role /= "admin"
              THEN Response("GetUser", a.ctx, 403, "forbidden", userID, <<>>)
              ELSE IF ~Exists(users, userID)
              THEN Response("GetUser", a.ctx, 404, "not_found", userID, <<>>)
              ELSE Response("GetUser", a.ctx, 200, "", userID, DataTo(users[userID], ZeroUser))

\* UpdateUser lines 371-388: the payload after the protected keys are removed.
UserUpdateDataKeepRole(updateData, role) ==
    With(Without(updateData, {"id", "email", "created_at"}), "updated_at", now)

UserUpdateData(updateData, role) ==
    LET stripped == With(Without(updateData, {"id", "email", "created_at"}),
                         "updated_at", now)
    IN IF role /= "admin" THEN Without(stripped, {"role"}) ELSE stripped

UpdateUser(authHeader, userID, updateData) ==
    /\ Idle
    /\ LET a == RequireAuth(authHeader) IN
       IF ~a.ok THEN Rejected("UpdateUser", a)
       ELSE LET currentUserObj == a.ctx.user IN
         /\ UNCHANGED <<fields, subs, blobs, issued, now, idCounter, uploads>>
         /\ IF currentUserObj.id /= userID /\ currentUserObj.role /= "admin"
            THEN /\ resp' = Response("UpdateUser", a.ctx, 403, "forbidden", userID, <<>>)
                 /\ UNCHANGED users
            ELSE LET updates == UpdateList(UserUpdateData(updateData, currentUserObj.role))
                     u == Update(users, userID, updates)
                 IN /\ users' = u.coll
                    /\ resp' = IF u.err
                               THEN Response("UpdateUser", a.ctx, 500, "internal_error",
                                             userID, updates)
                               ELSE Response("UpdateUser", a.ctx, 200, "", userID,
                                             DataTo(u.coll[userID], ZeroUser))

DeleteUserOrSelf(authHeader, userID) ==
    /\ Idle
    /\ LET a == RequireAuth(authHeader) IN
       IF ~a.ok THEN Rejected("DeleteUser", a)
       ELSE LET currentUserObj == a.ctx.user IN
         /\ UNCHANGED <<fields, subs, blobs, issued, now, idCounter, uploads>>
         /\ IF currentUserObj.role /= "admin" /\ currentUserObj.id /= userID
            THEN /\ resp' = Response("DeleteUser", a.ctx, 403, "forbidden", userID, <<>>)
                 /\ UNCHANGED users
            ELSE /\ users' = Delete(users, userID)
                 /\ resp' = Response("DeleteUser", a.ctx, 200, "", userID, <<>>)

DeleteUser(authHeader, userID) ==
    /\ Idle
    /\ LET a == RequireAuth(authHeader) IN
       IF ~a.ok THEN Rejected("DeleteUser", a)
       ELSE LET currentUserObj == a.ctx.user IN
         /\ UNCHANGED <<fields, subs, blobs, issued, now, idCounter, uploads>>
         /\ IF currentUserObj.role /= "admin"
            THEN /\ resp' = Response("DeleteUser", a.ctx, 403, "forbidden", userID, <<>>)
                 /\ UNCHANGED users
            ELSE IF currentUserObj.id = userID
            THEN /\ resp' = Response("DeleteUser", a.ctx, 400, "invalid_request", userID, <<>>)
                 /\ UNCHANGED users
            ELSE /\ users' = Delete(users, userID)
                 /\ resp' = Response("DeleteUser", a.ctx, 200, "", userID, <<>>)

----------------------------------------------------------------------------
(* Fields (FieldHandler) *)

FieldRequests ==
    {[name |-> "Plot 1", location |-> "North block"],
     [name |-> "", location |-> "North block"]}

\* PUT /fields/:id bodies: a change of name, and one that also names the
\* protected keys.
FieldPayloads ==
    {[name |-> "Plot 2"],
     [id |-> UnknownID, owner_id |-> AdminID, created_at |-> MaxTime + 1,
      location |-> "South block"]}

\* getFieldByID: [err, field]
getFieldByID(fieldID) ==
    IF Exists(fields, fieldID)
    THEN [err |-> FALSE, field |-> DataTo(fields[fieldID], ZeroField)]
    ELSE [err |-> TRUE, field |-> ZeroField]

\* The documents a query returns, as structs, in the order given.
RECURSIVE Decode(_, _, _)
Decode(coll, ids, zero) ==
    IF ids = <<>> THEN <<>>
    ELSE <<DataTo(coll[Head(ids)], zero)>> \o Decode(coll, Tail(ids), zero)

\* GetFields lines 35-37: the ids the query selects.
FieldsQuery(user) == DOMAIN fields

GetFields(authHeader) ==
    /\ Idle
    /\ LET a == RequireAuth(authHeader) IN
       IF ~a.ok THEN Rejected("GetFields", a)
       ELSE /\ UNCHANGED <<users, fields, subs, blobs, issued, now, idCounter, uploads>>
            /\ resp' = Response("GetFields", a.ctx, 200, "", <<>>,
                                Decode(fields, InNameOrder(FieldsQuery(a.ctx.user)), ZeroField))

CreateField(authHeader, req) ==
    /\ Idle
    /\ LET a == RequireAuth(authHeader) IN
       IF ~a.ok THEN Rejected("CreateField", a)
       ELSE IF req.name = "" \/ req.location = ""
       THEN /\ resp' = Response("CreateField", a.ctx, 400, "invalid_request", <<>>, <<>>)
            /\ UNCHANGED <<users, fields, subs, blobs, issued, now, idCounter, uploads>>
       ELSE LET user == a.ctx.user
                field == [ZeroField EXCEPT !.id = GenerateID("f"),
                                           !.name = req.name,
                                           !.location = req.location,
                                           !.owner_id = user.id,
                                           !.created_at = now,
                                           !.updated_at = now]
            IN /\ Created < MaxDocs
               /\ idCounter' = Count("f")
               /\ fields' = Set(fields, field.id, field)
               /\ resp' = Response("CreateField", a.ctx, 201, "", field.id, field)
               /\ UNCHANGED <<users, subs, blobs, issued, now, uploads>>

\* The ownership check of the Read, Update and Delete handlers.
AccessDeniedNever(user, ownerID) == FALSE

AccessDenied(user, ownerID) == user.role /= "admin" /\ ownerID /= user.id

\* GetField behind the gate: the response for the context the gate set.
GetFieldAs(ctx, fieldID) ==
    LET g == getFieldByID(fieldID) IN
    IF g.err
    THEN Response("GetField", ctx, 404, "not_found", fieldID, <<>>)
    ELSE IF AccessDenied(ctx.user, g.field.owner_id)
    THEN Response("GetField", ctx, 403, "forbidden", fieldID, <<>>)
    ELSE Response("GetField", ctx, 200, "", fieldID, g.field)

GetField(authHeader, fieldID) ==
    /\ Idle
    /\ LET a == RequireAuth(authHeader) IN
       IF ~a.ok THEN Rejected("GetField", a)
       ELSE /\ UNCHANGED <<users, fields, subs, blobs, issued, now, idCounter, uploads>>
            /\ resp' = GetFieldAs(a.ctx, fieldID)

\* UpdateField lines 199-203: the payload after the protected keys are removed.
FieldUpdateData(updateData) ==
    With(Without(updateData, {"id", "owner_id", "created_at"}), "updated_at", now)

UpdateField(authHeader, fieldID, updateData) ==
    /\ Idle
    /\ LET a == RequireAuth(authHeader) IN
       IF ~a.ok THEN Rejected("UpdateField", a)
       ELSE LET g == getFieldByID(fieldID) IN
         /\ UNCHANGED <<users, subs, blobs, issued, now, idCounter, uploads>>
         /\ IF g.err
            THEN /\ resp' = Response("UpdateField", a.ctx, 404, "not_found", fieldID, <<>>)
                 /\ UNCHANGED fields
            ELSE IF AccessDenied(a.ctx.user, g.field.owner_id)
            THEN /\ resp' = Response("UpdateField", a.ctx, 403, "forbidden", fieldID, <<>>)
                 /\ UNCHANGED fields
            ELSE LET updates == UpdateList(FieldUpdateData(updateData))
                     u == Update(fields, fieldID, updates)
                 IN /\ fields' = u.coll
                    /\ resp' = IF u.err
                               THEN Response("UpdateField", a.ctx, 500, "internal_error",
                                             fieldID, updates)
                               ELSE Response("UpdateField", a.ctx, 200, "", fieldID,
                                             DataTo(u.coll[fieldID], ZeroField))

DeleteField(authHeader, fieldID) ==
    /\ Idle
    /\ LET a == RequireAuth(authHeader) IN
       IF ~a.ok THEN Rejected("DeleteField", a)
       ELSE LET g == getFieldByID(fieldID) IN
         /\ UNCHANGED <<users, subs, blobs, issued, now, idCounter, uploads>>
         /\ IF g.err
            THEN /\ resp' = Response("DeleteField", a.ctx, 404, "not_found", fieldID, <<>>)
                 /\ UNCHANGED fields
            ELSE IF AccessDenied(a.ctx.user, g.field.owner_id)
            THEN /\ resp' = Response("DeleteField", a.ctx, 403, "forbidden", fieldID, <<>>)
                 /\ UNCHANGED fields
            ELSE /\ fields' = Delete(fields, fieldID)
                 /\ resp' = Response("DeleteField", a.ctx, 200, "", fieldID, <<>>)

----------------------------------------------------------------------------
(* Submissions (SubmissionHandler): handlers/submissions.go, and the second
   copy of the handler file where the two differ (names ending in 2) *)

\* POST /submissions bodies, field_id apart: one that binds, at a growth
\* stage other than that of the submission stored at start, and one that
\* lacks a required key.
SubmissionRequests ==
    {[date |-> 1, growth_stage |-> "Tillering", observer_name |-> "Observer"],
     [date |-> 1, growth_stage |-> "", observer_name |-> "Observer"]}

\* PUT /submissions/:id bodies: a change of status, and one that also names
\* the protected keys and a status that is none of the four.
SubmissionPayloads ==
    {[status |-> "approved"],
     [id |-> UnknownID, user_id |-> AdminID, created_at |-> MaxTime + 1,
      notes |-> "mine", status |-> "archived"]}

\* The Submission literal of CreateSubmission.
NewSubmissionDraft(user, fieldID, req) ==
    [ZeroSubmission EXCEPT !.id = GenerateID("s"),
                           !.user_id = user.id,
                           !.field_id = fieldID,
                           !.date = req.date,
                           !.growth_stage = "Seedling",
                           !.observer_name = req.observer_name,
                           !.status = "draft",
                           !.created_at = now,
                           !.updated_at = now]

NewSubmission(user, fieldID, req) ==
    [ZeroSubmission EXCEPT !.id = GenerateID("s"),
                           !.user_id = user.id,
                           !.field_id = fieldID,
                           !.date = req.date,
                           !.growth_stage = req.growth_stage,
                           !.observer_name = req.observer_name,
                           !.status = "submitted",
                           !.created_at = now,
                           !.updated_at = now]

CreateSubmission(authHeader, fieldID, req) ==
    /\ Idle
    /\ LET a == RequireAuth(authHeader) IN
       IF ~a.ok THEN Rejected("CreateSubmission", a)
       ELSE IF fieldID = <<>> \/ req.date = 0 \/ req.growth_stage = "" \/ req.observer_name = ""
       THEN /\ resp' = Response("CreateSubmission", a.ctx, 400, "invalid_request", <<>>, <<>>)
            /\ UNCHANGED <<users, fields, subs, blobs, issued, now, idCounter, uploads>>
       ELSE LET user == a.ctx.user
                submission == NewSubmission(user, fieldID, req)
            IN /\ Created < MaxDocs
               /\ idCounter' = Count("s")
               /\ subs' = Set(subs, submission.id, submission)
               /\ resp' = Response("CreateSubmission", a.ctx, 201, "", submission.id, submission)
               /\ UNCHANGED <<users, fields, blobs, issued, now, uploads>>

\* query.Where("user_id", "==", user.ID) unless the caller is an admin.
OwnedByAnyone(user) == DOMAIN subs

OwnedBy(user) ==
    IF user.role /= "admin"
    THEN {id \in DOMAIN subs : subs[id].user_id = user.id}
    ELSE DOMAIN subs

\* query.OrderBy("created_at", Desc): newest first, document name breaking ties.
RECURSIVE NewestFirst(_)
NewestFirst(S) ==
    IF S = {} THEN <<>>
    ELSE LET m == CHOOSE x \in S : \A y \in S :
                    \/ subs[x].created_at > subs[y].created_at
                    \/ /\ subs[x].created_at = subs[y].created_at
                       /\ IdOrder(x) >= IdOrder(y)
         IN <<m>> \o NewestFirst(S \ {m})

\* query.Offset((page - 1) * limit) when page > 1, then query.Limit(limit).
Paginate(ids, page, limit) ==
    LET offset == IF page > 1 THEN (page - 1) * limit ELSE 0
        last == IF offset + limit < Len(ids) THEN offset + limit ELSE Len(ids)
    IN SubSeq(ids, offset + 1, last)

GetSubmissions(authHeader, page, limit, status, fieldID) ==
    /\ Idle
    /\ LET a == RequireAuth(authHeader) IN
       IF ~a.ok THEN Rejected("GetSubmissions", a)
       ELSE LET user == a.ctx.user
                matching == {id \in OwnedBy(user) :
                               /\ status /= "" => subs[id].status = status
                               /\ fieldID /= <<>> => subs[id].field_id = fieldID}
                docs == Paginate(NewestFirst(matching), page, limit)
                submissions == Decode(subs, docs, ZeroSubmission)
            IN /\ UNCHANGED <<users, fields, subs, blobs, issued, now, idCounter, uploads>>
               /\ resp' = Response("GetSubmissions", a.ctx, 200, "",
                                   <<page, limit, status, fieldID>>,
                                   [submissions |-> submissions, page |-> page,
                                    limit |-> limit, total |-> Len(submissions)])

\* SubmissionResponse: the submission with its Field embedded.
SubmissionResponse(submission, field) ==
    [k \in DOMAIN submission \cup {"field"} |->
        IF k = "field" THEN field ELSE submission[k]]

\* GetSubmissions of the second copy, lines 85-122: a submission whose field
\* cannot be fetched is skipped.
RECURSIVE JoinFields(_)
JoinFields(docs) ==
    IF docs = <<>> THEN <<>>
    ELSE LET submission == DataTo(subs[Head(docs)], ZeroSubmission)
             g == getFieldByID(submission.field_id)
         IN IF g.err THEN JoinFields(Tail(docs))
            ELSE <<SubmissionResponse(submission, g.field)>> \o JoinFields(Tail(docs))

GetSubmissions2(authHeader, page, limit, status) ==
    /\ Idle
    /\ LET a == RequireAuth(authHeader) IN
       IF ~a.ok THEN Rejected("GetSubmissions2", a)
       ELSE LET user == a.ctx.user
                docs == Paginate(InNameOrder(OwnedBy(user)), page, limit)
                submissionsResponse == JoinFields(docs)
            IN /\ UNCHANGED <<users, fields, subs, blobs, issued, now, idCounter, uploads>>
               /\ resp' = Response("GetSubmissions2", a.ctx, 200, "",
                                   <<page, limit, status, <<>>>>,
                                   [submissions |-> submissionsResponse, page |-> page,
                                    limit |-> limit, total |-> Len(submissionsResponse)])

\* GetSubmission behind the gate: the response for the context the gate set.
GetSubmissionAs(ctx, submissionID) ==
    IF ~Exists(subs, submissionID)
    THEN Response("GetSubmission", ctx, 404, "not_found", submissionID, <<>>)
    ELSE LET submission == DataTo(subs[submissionID], ZeroSubmission) IN
    IF AccessDenied(ctx.user, submission.user_id)
    THEN Response("GetSubmission", ctx, 403, "forbidden", submissionID, <<>>)
    ELSE Response("GetSubmission", ctx, 200, "", submissionID, submission)

GetSubmission(authHeader, submissionID) ==
    /\ Idle
    /\ LET a == RequireAuth(authHeader) IN
       IF ~a.ok THEN Rejected("GetSubmission", a)
       ELSE /\ UNCHANGED <<users, fields, subs, blobs, issued, now, idCounter, uploads>>
            /\ resp' = GetSubmissionAs(a.ctx, submissionID)

\* GetSubmission of the second copy behind the gate: the submission is
\* answered with its field, and not at all when the field cannot be fetched.
GetSubmission2As(ctx, submissionID) ==
    IF ~Exists(subs, submissionID)
    THEN Response("GetSubmission2", ctx, 404, "not_found", submissionID, <<>>)
    ELSE LET submission == DataTo(subs[submissionID], ZeroSubmission) IN
    IF AccessDenied(ctx.user, submission.user_id)
    THEN Response("GetSubmission2", ctx, 403, "forbidden", submissionID, <<>>)
    ELSE LET g == getFieldByID(submission.field_id) IN
    IF g.err
    THEN Response("GetSubmission2", ctx, 500, "internal_error", submissionID, <<>>)
    ELSE Response("GetSubmission2", ctx, 200, "", submissionID,
                  SubmissionResponse(submission, g.field))

GetSubmission2(authHeader, submissionID) ==
    /\ Idle
    /\ LET a == RequireAuth(authHeader) IN
       IF ~a.ok THEN Rejected("GetSubmission2", a)
       ELSE /\ UNCHANGED <<users, fields, subs, blobs, issued, now, idCounter, uploads>>
            /\ resp' = GetSubmission2As(a.ctx, submissionID)

\* UpdateSubmission lines 260-264: the payload after the protected keys are removed.
SubmissionUpdateDataKeepOwner(updateData) ==
    With(Without(updateData, {"id", "created_at"}), "updated_at", now)

SubmissionUpdateData(updateData) ==
    With(Without(updateData, {"id", "user_id", "created_at"}), "updated_at", now)

UpdateSubmission(authHeader, submissionID, updateData) ==
    /\ Idle
    /\ LET a == RequireAuth(authHeader) IN
       IF ~a.ok THEN Rejected("UpdateSubmission", a)
       ELSE
         /\ UNCHANGED <<users, fields, blobs, issued, now, idCounter, uploads>>
         /\ IF ~Exists(subs, submissionID)
            THEN /\ resp' = Response("UpdateSubmission", a.ctx, 404, "not_found",
                                     submissionID, <<>>)
                 /\ UNCHANGED subs
            ELSE LET submission == DataTo(subs[submissionID], ZeroSubmission) IN
            IF AccessDenied(a.ctx.user, submission.user_id)
            THEN /\ resp' = Response("UpdateSubmission", a.ctx, 403, "forbidden",
                                     submissionID, <<>>)
                 /\ UNCHANGED subs
            ELSE LET updates == UpdateList(SubmissionUpdateData(updateData))
                     u == Update(subs, submissionID, updates)
                 IN /\ subs' = u.coll
                    /\ resp' = IF u.err
                               THEN Response("UpdateSubmission", a.ctx, 500, "internal_error",
                                             submissionID, updates)
                               ELSE Response("UpdateSubmission", a.ctx, 200, "", submissionID,
                                             DataTo(u.coll[submissionID], ZeroSubmission))

\* UpdateSubmission as the two steps other writers can come between: up to
\* the access check on the document read (lines 236-258) ...
UpdateSubmissionBegin(authHeader, submissionID, updateData) ==
    /\ Idle
    /\ LET a == RequireAuth(authHeader) IN
       IF ~a.ok THEN Rejected("UpdateSubmission", a)
       ELSE
         /\ UNCHANGED <<users, fields, subs, blobs, issued, now, idCounter>>
         /\ IF ~Exists(subs, submissionID)
            THEN /\ resp' = Response("UpdateSubmission", a.ctx, 404, "not_found",
                                     submissionID, <<>>)
                 /\ UNCHANGED uploads
            ELSE LET submission == DataTo(subs[submissionID], ZeroSubmission) IN
            IF AccessDenied(a.ctx.user, submission.user_id)
            THEN /\ resp' = Response("UpdateSubmission", a.ctx, 403, "forbidden",
                                     submissionID, <<>>)
                 /\ UNCHANGED uploads
            ELSE /\ Cardinality(uploads) < MaxUploads
                 /\ uploads' = uploads \cup
                       {[pc |-> "update", ctx |-> a.ctx, submissionID |-> submissionID,
                         filename |-> <<>>, imageURL |-> <<>>, read |-> NoDoc,
                         write |-> UpdateList(SubmissionUpdateData(updateData))]}
                 /\ resp' = resp

\* ... and from the Update call on (lines 272-297).
UpdateSubmissionEnd(u) ==
    /\ Idle
    /\ u.pc = "update"
    /\ UNCHANGED <<users, fields, blobs, issued, now, idCounter>>
    /\ uploads' = uploads \ {u}
    /\ LET w == Update(subs, u.submissionID, u.write)
       IN /\ subs' = w.coll
          /\ resp' = IF w.err
                     THEN Response("UpdateSubmission", u.ctx, 500, "internal_error",
                                   u.submissionID, u.write)
                     ELSE Response("UpdateSubmission", u.ctx, 200, "", u.submissionID,
                                   DataTo(w.coll[u.submissionID], ZeroSubmission))

DeleteSubmission(authHeader, submissionID) ==
    /\ Idle
    /\ LET a == RequireAuth(authHeader) IN
       IF ~a.ok THEN Rejected("DeleteSubmission", a)
       ELSE
         /\ UNCHANGED <<users, fields, blobs, issued, now, idCounter, uploads>>
         /\ IF ~Exists(subs, submissionID)
            THEN /\ resp' = Response("DeleteSubmission", a.ctx, 404, "not_found",
                                     submissionID, <<>>)
                 /\ UNCHANGED subs
            ELSE LET submission == DataTo(subs[submissionID], ZeroSubmission) IN
            IF AccessDenied(a.ctx.user, submission.user_id)
            THEN /\ resp' = Response("DeleteSubmission", a.ctx, 403, "forbidden",
                                     submissionID, <<>>)
                 /\ UNCHANGED subs
            ELSE /\ subs' = Delete(subs, submissionID)
                 /\ resp' = Response("DeleteSubmission", a.ctx, 200, "", submissionID, <<>>)

\* utils.FormatDate, t.Format("2006-01-02"): the day of an hour count.
FormatDate(t) == t \div 24

\* The CSV text as its lines, each line as its comma-separated values.
CSVHeader == <<"ID", "Date", "Location", "Growth Stage", "Observer", "Status">>

\* fmt.Sprintf with six %s verbs and five operands: the sixth verb prints
\* %!s(MISSING).
RECURSIVE Rows(_)
Rows(ids) ==
    IF ids = <<>> THEN <<>>
    ELSE LET s == DataTo(subs[Head(ids)], ZeroSubmission)
         IN <<<<s.id, FormatDate(s.date), s.growth_stage, s.observer_name, s.status,
                 "%!s(MISSING)">>>> \o Rows(Tail(ids))

\* The second copy: five %s verbs and five operands.
RECURSIVE Rows2(_)
Rows2(ids) ==
    IF ids = <<>> THEN <<>>
    ELSE LET s == DataTo(subs[Head(ids)], ZeroSubmission)
         IN <<<<s.id, FormatDate(s.date), s.growth_stage, s.observer_name, s.status>>>>
            \o Rows2(Tail(ids))

ExportSubmissions(authHeader) ==
    /\ Idle
    /\ LET a == RequireAuth(authHeader) IN
       IF ~a.ok THEN Rejected("ExportSubmissions", a)
       ELSE /\ UNCHANGED <<users, fields, subs, blobs, issued, now, idCounter, uploads>>
            /\ resp' = Response("ExportSubmissions", a.ctx, 200, "", <<>>,
                                [header |-> CSVHeader,
                                 rows |-> Rows(InNameOrder(OwnedBy(a.ctx.user)))])

ExportSubmissions2(authHeader) ==
    /\ Idle
    /\ LET a == RequireAuth(authHeader) IN
       IF ~a.ok THEN Rejected("ExportSubmissions2", a)
       ELSE /\ UNCHANGED <<users, fields, subs, blobs, issued, now, idCounter, uploads>>
            /\ resp' = Response("ExportSubmissions2", a.ctx, 200, "", <<>>,
                                [header |-> CSVHeader,
                                 rows |-> Rows2(InNameOrder(OwnedBy(a.ctx.user)))])

----------------------------------------------------------------------------
(* Analytics (AnalyticsHandler) *)

\* A map[string]int filled by counting the documents by the value of a key:
\* it has an entry for each value met.
CountByOne(ids, key) ==
    [v \in {DataTo(subs[id], ZeroSubmission)[key] : id \in ids} |-> 1]

CountBy(ids, key) ==
    [v \in {DataTo(subs[id], ZeroSubmission)[key] : id \in ids} |->
        Cardinality({id \in ids : DataTo(subs[id], ZeroSubmission)[key] = v})]

\* Query.Limit(n) on an ordered result.
Limit(ids, n) == SubSeq(ids, 1, IF Len(ids) < n THEN Len(ids) ELSE n)

GetDashboardData(authHeader) ==
    /\ Idle
    /\ LET a == RequireAuth(authHeader) IN
       IF ~a.ok THEN Rejected("GetDashboardData", a)
       ELSE LET submissionsQuery == OwnedBy(a.ctx.user)
                recentDocs == Limit(NewestFirst(submissionsQuery), RecentLimit)
            IN /\ UNCHANGED <<users, fields, subs, blobs, issued, now, idCounter, uploads>>
               /\ resp' = Response("GetDashboardData", a.ctx, 200, "", <<>>,
                       [total_submissions |-> Cardinality(submissionsQuery),
                        submissions_by_status |-> CountBy(submissionsQuery, "status"),
                        submissions_by_stage |-> CountBy(submissionsQuery, "growth_stage"),
                        recent_submissions |-> Decode(subs, recentDocs, ZeroSubmission),
                        last_updated |-> now])

----------------------------------------------------------------------------
(* Images (ImageHandler) *)

BucketName == "rice-monitor-images-dev"

AllowedTypes == {<<".", "j", "p", "g">>, <<".", "j", "p", "e", "g">>,
                 <<".", "p", "n", "g">>, <<".", "w", "e", "b", "p">>}

ValidateFileTypeAny(filename) == TRUE

ValidateFileType(filename) == \E ext \in AllowedTypes : HasSuffix(filename, ext)

\* filepath.Ext: from the last dot of the last path element, or empty.
Ext(path) ==
    LET dots == {i \in DOMAIN path : path[i] = "."}
        slashes == {i \in DOMAIN path : path[i] = "/"}
    IN IF dots = {} \/ (slashes /= {} /\ Max(slashes) > Max(dots)) THEN <<>>
       ELSE SubSeq(path, Max(dots), Len(path))

\* Uploaded files by name; <<>> is a request without a file part.
FileNames ==
    {<<>>, <<"a", ".", "j", "p", "g">>, <<"a", ".", "p", "n", "g">>,
     <<"a", ".", "g", "i", "f">>, <<"a", ".", "J", "P", "G">>,
     <<"a", ".", "j", "p", "g", ".", "e", "x", "e">>, <<"j", "p", "g">>}

ShortID == <<"a", "b">>
TempID == TempPrefix \o <<"1">>

ObjectName(submissionID, ext) ==
    submissionID \o <<"/">> \o GenerateID("i")
                 \o <<"_", ToString(now)>> \o ext

ImageURL(filename) ==
    <<"https://storage.googleapis.com/", BucketName, "/">> \o filename

\* The body of the transaction function of addImageToSubmission, run on the
\* document read: the document it sets.
AppendImageFresh(doc, imageURL) ==
    [ZeroSubmission EXCEPT !.id = doc.id, !.images = <<imageURL>>,
                           !.updated_at = now]

AppendImage(doc, imageURL) ==
    LET submission == DataTo(doc, ZeroSubmission)
    IN [submission EXCEPT !.images = Append(submission.images, imageURL),
                          !.updated_at = now]

\* UploadImage up to the start of the append transaction.
UploadImage(authHeader, submissionID, file) ==
    /\ Idle
    /\ LET a == RequireAuth(authHeader) IN
       IF ~a.ok THEN Rejected("UploadImage", a)
       ELSE IF submissionID = <<>>
       THEN /\ resp' = Response("UploadImage", a.ctx, 400, "invalid_request", submissionID, <<>>)
            /\ UNCHANGED <<users, fields, subs, blobs, issued, now, idCounter, uploads>>
       ELSE IF file = <<>>
       THEN /\ resp' = Response("UploadImage", a.ctx, 400, "invalid_request", submissionID, <<>>)
            /\ UNCHANGED <<users, fields, subs, blobs, issued, now, idCounter, uploads>>
       ELSE IF ~ValidateFileType(file)
       THEN /\ resp' = Response("UploadImage", a.ctx, 400, "invalid_file_type", submissionID, <<>>)
            /\ UNCHANGED <<users, fields, subs, blobs, issued, now, idCounter, uploads>>
       ELSE LET filename == ObjectName(submissionID, Ext(file))
                imageURL == ImageURL(filename)
            IN /\ idCounter["i"] < MaxImages
               /\ idCounter' = Count("i")
               /\ blobs' = blobs \cup {filename}
               /\ UNCHANGED <<users, fields, subs, issued, now>>
               /\ IF Len(submissionID) < 5
                  THEN \* submissionID[:5] panics; the recovery middleware answers 500
                       /\ resp' = Response("UploadImage", a.ctx, 500, "", submissionID, <<>>)
                       /\ UNCHANGED uploads
                  ELSE IF SubSeq(submissionID, 1, 5) /= TempPrefix
                  THEN /\ Cardinality(uploads) < MaxUploads
                       /\ uploads' = uploads \cup
                             {[pc |-> "get", ctx |-> a.ctx, submissionID |-> submissionID,
                               filename |-> filename, imageURL |-> imageURL,
                               read |-> NoDoc, write |-> NoDoc]}
                       /\ resp' = resp
                  ELSE /\ resp' = Response("UploadImage", a.ctx, 200, "", submissionID,
                                           [filename |-> filename, url |-> imageURL])
                       /\ UNCHANGED uploads

\* GET /images/:filename: a redirect to the public URL of the name given.
GetImage(authHeader, filename) ==
    /\ Idle
    /\ LET a == RequireAuth(authHeader) IN
       IF ~a.ok THEN Rejected("GetImage", a)
       ELSE /\ resp' = Response("GetImage", a.ctx, 308, "", filename, ImageURL(filename))
            /\ UNCHANGED <<users, fields, subs, blobs, issued, now, idCounter, uploads>>

\* DELETE /images/:filename; deleting an object the bucket does not hold fails.
DeleteImage(authHeader, filename) ==
    /\ Idle
    /\ LET a == RequireAuth(authHeader) IN
       IF ~a.ok THEN Rejected("DeleteImage", a)
       ELSE
         /\ UNCHANGED <<users, fields, subs, issued, now, idCounter, uploads>>
         /\ IF a.ctx.user.role /= "admin"
            THEN /\ resp' = Response("DeleteImage", a.ctx, 403, "forbidden", filename, <<>>)
                 /\ UNCHANGED blobs
            ELSE IF filename \notin blobs
            THEN /\ resp' = Response("DeleteImage", a.ctx, 500, "delete_failed", filename, <<>>)
                 /\ UNCHANGED blobs
            ELSE /\ blobs' = blobs \ {filename}
                 /\ resp' = Response("DeleteImage", a.ctx, 200, "", filename, <<>>)

\* tx.Get and the transaction function: the read and the buffered write.
TxGet(u) ==
    /\ Idle
    /\ u.pc = "get"
    /\ UNCHANGED <<users, fields, subs, blobs, issued, now, idCounter>>
    /\ IF ~Exists(subs, u.submissionID)
       THEN /\ uploads' = uploads \ {u}
            /\ resp' = Response("UploadImage", u.ctx, 500, "internal_error",
                                u.submissionID, <<>>)
       ELSE /\ uploads' = (uploads \ {u}) \cup
                  {[u EXCEPT !.pc = "commit",
                             !.read = subs[u.submissionID],
                             !.write = AppendImage(subs[u.submissionID], u.imageURL)]}
            /\ resp' = resp

\* The commit goes through when the document read is still the stored one.
CommitAllowedAlways(u) == Exists(subs, u.submissionID)

CommitAllowed(u) == Exists(subs, u.submissionID) /\ subs[u.submissionID] = u.read

\* Commit of the transaction; a conflict runs the transaction function again.
TxCommit(u) ==
    /\ Idle
    /\ u.pc = "commit"
    /\ UNCHANGED <<users, fields, blobs, issued, now, idCounter>>
    /\ IF CommitAllowed(u)
       THEN /\ subs' = Set(subs, u.submissionID, u.write)
            /\ uploads' = uploads \ {u}
            /\ resp' = Response("UploadImage", u.ctx, 200, "", u.submissionID,
                                [filename |-> u.filename, url |-> u.imageURL])
       ELSE /\ uploads' = (uploads \ {u}) \cup
                  {[u EXCEPT !.pc = "get", !.read = NoDoc, !.write = NoDoc]}
            /\ UNCHANGED <<subs, resp>>

----------------------------------------------------------------------------
(* The system *)

Tick ==
    /\ Idle
    /\ now < MaxTime
    /\ now' = now + 1
    /\ UNCHANGED <<users, fields, subs, blobs, issued, idCounter, uploads, resp>>

\* The response written goes out to the client.
Deliver ==
    /\ ~Idle
    /\ resp' = NoResponse
    /\ UNCHANGED <<users, fields, subs, blobs, issued, now, idCounter, uploads>>


Init ==
    /\ users = Seeded
    /\ fields = SeededFields
    /\ subs = SeededSubmissions
    /\ blobs = {}
    /\ issued = {[id |-> Seeded[id].id, email |-> Seeded[id].email,
                   role |-> Seeded[id].role, since |-> 0] : id \in DOMAIN Seeded}
    /\ now = 0
    /\ idCounter = [u |-> 3, f |-> 1, s |-> 1, i |-> 0]
    /\ uploads = {}
    /\ resp = NoResponse

\* A store in use: the accounts and the field as above, and MaxSeeded
\* submissions made over two hours at three growth stages, all but the last
\* by the observer.
BusySubmissions ==
    LET sid(k) == UuidPrefix \o <<"s", Digits[k]>>
        stage(k) == <<"Seedling", "Tillering", "Flowering">>[(k % 3) + 1]
        sub(k) == [ZeroSubmission EXCEPT !.id = sid(k),
                                         !.user_id = IF k = MaxSeeded THEN OtherID
                                                     ELSE ObserverID,
                                         !.field_id = FieldID,
                                         !.date = 1,
                                         !.growth_stage = stage(k),
                                         !.observer_name = "Observer",
                                         !.status = "submitted",
                                         !.created_at = k % 2,
                                         !.updated_at = k % 2]
    IN [id \in {sid(k) : k \in 1..MaxSeeded} |->
          sub(CHOOSE k \in 1..MaxSeeded : sid(k) = id)]

InitBusy ==
    /\ users = Seeded
    /\ fields = SeededFields
    /\ subs = BusySubmissions
    /\ blobs = {}
    /\ issued = {[id |-> Seeded[id].id, email |-> Seeded[id].email,
                   role |-> Seeded[id].role, since |-> 0] : id \in DOMAIN Seeded}
    /\ now = 1
    /\ idCounter = [u |-> 3, f |-> 1, s |-> MaxSeeded, i |-> 0]
    /\ uploads = {}
    /\ resp = NoResponse

\* Object names requests give: the stored ones and one the bucket lacks.
UnknownName == <<"x", ".", "j", "p", "g">>
ObjectNames == blobs \cup {UnknownName}

UserIDs == DOMAIN users \cup {UnknownID}
FieldIDs == DOMAIN fields \cup {UnknownID}
SubmissionIDs == DOMAIN subs \cup {UnknownID}

\* Query strings of GET /submissions.
Queries ==
    {[page |-> 1, limit |-> DefaultLimit, status |-> "", field_id |-> <<>>],
     [page |-> 2, limit |-> 1, status |-> "", field_id |-> <<>>],
     [page |-> 1, limit |-> 1, status |-> "submitted", field_id |-> <<>>],
     [page |-> 1, limit |-> DefaultLimit, status |-> "approved", field_id |-> <<>>]}
    \cup {[page |-> 1, limit |-> DefaultLimit, status |-> "", field_id |-> f] :
            f \in DOMAIN fields}

\* The parameters tried with a header: all of S when the gate lets the header
\* through, one of them when it does not (the gate reads none of them).
For(authHeader, S) ==
    IF RequireAuth(authHeader).ok THEN S ELSE {CHOOSE x \in S : TRUE}

\* Requests are served one at a time: none arrives while a response is
\* being written.
Arriving(S) == IF Idle THEN S ELSE {}

\* The account routes: /auth and /users.
\* Logins whose lookup and write other logins can come between.
NextLogins ==
    \/ Tick
    \/ \E req \in Arriving(GoogleTokens) : GoogleLoginBegin(req)
    \/ \E u \in uploads : GoogleLoginEnd(u)
    \/ \E h \in Arriving(Headers) : GetCurrentUser(h)
    \/ Deliver

NextAccounts ==
    \/ Tick
    \/ \E req \in Arriving(GoogleTokens) : GoogleLogin(req)
    \/ \E req \in Arriving(Presentable \cup {<<>>}) : RefreshToken(req)
    \/ \E h \in Arriving(Headers) : Logout(h)
    \/ \E h \in Arriving(Headers) : GetCurrentUser(h)
    \/ \E h \in Arriving(Headers) : \E id \in For(h, UserIDs) : GetUser(h, id)
    \/ \E h \in Arriving(Headers) : \E id \in For(h, UserIDs), d \in For(h, UserPayloads) :
          UpdateUser(h, id, d)
    \/ \E h \in Arriving(Headers) : \E id \in For(h, UserIDs) : DeleteUser(h, id)
    \/ Deliver

\* The record routes: /fields and /submissions, in both copies of the
\* submission handler, and the third update route, PUT /users/:id.
NextRecords ==
    \/ Tick
    \/ \E h \in Arriving(Headers) : GetFields(h)
    \/ \E h \in Arriving(Headers) : \E req \in For(h, FieldRequests) : CreateField(h, req)
    \/ \E h \in Arriving(Headers) : \E id \in For(h, FieldIDs) : GetField(h, id)
    \/ \E h \in Arriving(Headers) : \E id \in For(h, FieldIDs), d \in For(h, FieldPayloads) :
          UpdateField(h, id, d)
    \/ \E h \in Arriving(Headers) : \E id \in For(h, FieldIDs) : DeleteField(h, id)
    \/ \E h \in Arriving(Headers) : \E q \in For(h, Queries) :
          GetSubmissions(h, q.page, q.limit, q.status, q.field_id)
    \/ \E h \in Arriving(Headers) : \E q \in For(h, {q \in Queries : q.field_id = <<>>}) :
          GetSubmissions2(h, q.page, q.limit, q.status)
    \/ \E h \in Arriving(Headers) : \E f \in For(h, FieldIDs \cup {<<>>}),
                             req \in For(h, SubmissionRequests) :
          CreateSubmission(h, f, req)
    \/ \E h \in Arriving(Headers) : \E id \in For(h, SubmissionIDs) : GetSubmission(h, id)
    \/ \E h \in Arriving(Headers) : \E id \in For(h, SubmissionIDs) : GetSubmission2(h, id)
    \/ \E h \in Arriving(Headers) : \E id \in For(h, SubmissionIDs), d \in For(h, SubmissionPayloads) :
          UpdateSubmission(h, id, d)
    \/ \E h \in Arriving(Headers) : \E id \in For(h, SubmissionIDs) : DeleteSubmission(h, id)
    \/ \E h \in Arriving(Headers) : ExportSubmissions(h)
    \/ \E h \in Arriving(Headers) : ExportSubmissions2(h)
    \/ \E h \in Arriving(Headers) : \E id \in For(h, UserIDs), d \in For(h, UserPayloads) :
          UpdateUser(h, id, d)
    \/ Deliver

\* The image routes, with the submission writers they run against.
NextImages ==
    \/ \E h \in Arriving(Headers) : \E id \in For(h, SubmissionIDs \cup {<<>>, ShortID, TempID}),
                             file \in For(h, FileNames) :
          UploadImage(h, id, file)
    \/ \E u \in uploads : TxGet(u)
    \/ \E u \in uploads : TxCommit(u)
    \/ \E h \in Arriving(Headers) : \E id \in For(h, SubmissionIDs), d \in For(h, SubmissionPayloads) :
          UpdateSubmission(h, id, d)
    \/ \E h \in Arriving(Headers) : \E id \in For(h, SubmissionIDs) : DeleteSubmission(h, id)
    \/ Deliver

\* The bucket: objects stored by uploads, for submissions that exist, that
\* are deleted meanwhile or never existed, and objects fetched and deleted.
NextBlobs ==
    \/ \E h \in Arriving(Headers) : \E id \in For(h, SubmissionIDs \cup {ShortID, TempID}),
                             file \in For(h, {<<"a", ".", "j", "p", "g">>,
                                              <<"a", ".", "g", "i", "f">>}) :
          UploadImage(h, id, file)
    \/ \E u \in uploads : TxGet(u)
    \/ \E u \in uploads : TxCommit(u)
    \/ \E h \in Arriving(Headers) : \E name \in For(h, ObjectNames) : GetImage(h, name)
    \/ \E h \in Arriving(Headers) : \E name \in For(h, ObjectNames) : DeleteImage(h, name)
    \/ \E h \in Arriving(Headers) : \E id \in For(h, SubmissionIDs) : DeleteSubmission(h, id)
    \/ Deliver

\* The life of a submission: created on the stored field, updated, given
\* images and deleted, by any caller.
NextLifecycle ==
    \/ \E h \in Arriving(Headers) : \E req \in For(h, SubmissionRequests) :
          CreateSubmission(h, FieldID, req)
    \/ \E h \in Arriving(Headers) : \E id \in For(h, SubmissionIDs), d \in For(h, SubmissionPayloads) :
          UpdateSubmission(h, id, d)
    \/ \E h \in Arriving(Headers) : \E id \in For(h, SubmissionIDs) :
          UploadImage(h, id, <<"a", ".", "j", "p", "g">>)
    \/ \E u \in uploads : TxGet(u)
    \/ \E u \in uploads : TxCommit(u)
    \/ \E h \in Arriving(Headers) : \E id \in For(h, SubmissionIDs) : DeleteSubmission(h, id)
    \/ Deliver

\* Deletion against the writers in flight: updates between their read and
\* their write, uploads inside the append transaction, and the reads after.
NextDelete ==
    \/ \E h \in Arriving(Headers) : \E id \in For(h, SubmissionIDs), d \in For(h, SubmissionPayloads) :
          UpdateSubmissionBegin(h, id, d)
    \/ \E u \in uploads : UpdateSubmissionEnd(u)
    \/ \E h \in Arriving(Headers) : \E id \in For(h, SubmissionIDs) :
          UploadImage(h, id, <<"a", ".", "j", "p", "g">>)
    \/ \E u \in uploads : TxGet(u)
    \/ \E u \in uploads : TxCommit(u)
    \/ \E h \in Arriving(Headers) : \E id \in For(h, SubmissionIDs) : DeleteSubmission(h, id)
    \/ \E h \in Arriving(Headers) : \E id \in For(h, SubmissionIDs \cup {SubmissionID}) :
          GetSubmission(h, id)
    \/ \E h \in Arriving(Headers) : GetSubmissions(h, 1, DefaultLimit, "", <<>>)
    \/ Deliver

\* The dashboard over a store in use, read between deletions.
NextDashboard ==
    \/ \E h \in Arriving(Headers) : GetDashboardData(h)
    \/ \E h \in Arriving(Headers) : \E id \in For(h, SubmissionIDs) : DeleteSubmission(h, id)
    \/ Deliver

\* Every protected route behind the gate, while accounts come and go: the
\* record and image routes are called with requests that write nothing.
NextGate ==
    \/ NextAccounts
    \/ \E h \in Arriving(Headers) : GetFields(h)
    \/ \E h \in Arriving(Headers) : CreateField(h, [name |-> "", location |-> ""])
    \/ \E h \in Arriving(Headers) : GetField(h, FieldID)
    \/ \E h \in Arriving(Headers) : UpdateField(h, FieldID, <<>>)
    \/ \E h \in Arriving(Headers) : DeleteField(h, UnknownID)
    \/ \E h \in Arriving(Headers) : GetSubmissions(h, 1, DefaultLimit, "", <<>>)
    \/ \E h \in Arriving(Headers) : GetSubmissions2(h, 1, DefaultLimit, "")
    \/ \E h \in Arriving(Headers) :
          CreateSubmission(h, <<>>, [date |-> 0, growth_stage |-> "", observer_name |-> ""])
    \/ \E h \in Arriving(Headers) : GetSubmission(h, SubmissionID)
    \/ \E h \in Arriving(Headers) : GetSubmission2(h, SubmissionID)
    \/ \E h \in Arriving(Headers) : UpdateSubmission(h, SubmissionID, <<>>)
    \/ \E h \in Arriving(Headers) : DeleteSubmission(h, UnknownID)
    \/ \E h \in Arriving(Headers) : ExportSubmissions(h)
    \/ \E h \in Arriving(Headers) : ExportSubmissions2(h)
    \/ \E h \in Arriving(Headers) : UploadImage(h, <<>>, <<>>)
    \/ \E h \in Arriving(Headers) : GetImage(h, UnknownName)
    \/ \E h \in Arriving(Headers) : DeleteImage(h, UnknownName)
    \/ \E h \in Arriving(Headers) : GetDashboardData(h)

Next == NextAccounts \/ NextRecords \/ NextImages

\* The whole API, and the three groups of routes on their own.
Spec == Init /\ [][Next]_vars
SpecAccounts == Init /\ [][NextAccounts]_vars
SpecRecords == Init /\ [][NextRecords]_vars
SpecImages == Init /\ [][NextImages]_vars
SpecGate == Init /\ [][NextGate]_vars
SpecLifecycle == Init /\ [][NextLifecycle]_vars
SpecDelete == Init /\ [][NextDelete]_vars
SpecLogins == Init /\ [][NextLogins]_vars

SpecBlobs == Init /\ [][NextBlobs]_vars
SpecDashboard == InitBusy /\ [][NextDashboard]_vars

----------------------------------------------------------------------------
(* Properties *)

SubmissionOps == {"GetSubmission", "GetSubmission2", "UpdateSubmission", "DeleteSubmission"}
FieldOps == {"GetField", "UpdateField", "DeleteField"}
ListOps == {"GetSubmissions", "GetSubmissions2"}
ExportOps == {"ExportSubmissions", "ExportSubmissions2"}
UpdateOps == {"UpdateSubmission", "UpdateField", "UpdateUser"}
CreateOps == {"CreateSubmission", "CreateField"}
PublicOps == {"GoogleLogin", "RefreshToken"}

\* The response r is that of a Read, Update or Delete handler on a stored record.
OnStored(r) ==
    /\ r.ran
    /\ \/ r.op \in SubmissionOps /\ Exists(subs, r.target)
       \/ r.op \in FieldOps /\ Exists(fields, r.target)

OwnerOf(r) ==
    IF r.op \in SubmissionOps THEN subs[r.target].user_id ELSE fields[r.target].owner_id

\* What C1 asks of a step, given the response r it writes.
C1_OwnershipStep ==
    \A r \in {resp'} :
       OnStored(r) =>
          /\ (r.ctx.user.role /= "admin" /\ r.ctx.user.id /= OwnerOf(r)) =>
                /\ r.status = 403
                /\ r.error = "forbidden"
                /\ UNCHANGED <<fields, subs>>
          /\ r.ctx.user.role = "admin" => r.status /= 403

Returned(r) ==
    IF r.op \in ListOps
    THEN {r.data.submissions[i].id : i \in DOMAIN r.data.submissions}
    ELSE {r.data.rows[i][1] : i \in DOMAIN r.data.rows}

FirstPage == <<1, DefaultLimit, "", <<>>>>

\* C2: every submission GetSubmissions returns to a non-admin caller, and every
\* row ExportSubmissions writes for them, is of a submission whose user_id is
\* the caller's id; an admin's unfiltered first page and export carry the
\* submissions of all owners (in the second copy of the handler, all those
\* whose field can be fetched).
C2_OwnSubmissionsOnly ==
    (resp.ran /\ resp.op \in ListOps \cup ExportOps) =>
       /\ resp.ctx.user_role /= "admin" =>
             /\ \A id \in Returned(resp) :
                   Exists(subs, id) /\ subs[id].user_id = resp.ctx.user_id
             /\ resp.op \in ListOps =>
                   \A i \in DOMAIN resp.data.submissions :
                      resp.data.submissions[i].user_id = resp.ctx.user_id
       /\ resp.ctx.user_role = "admin" =>
             /\ (resp.op = "GetSubmissions" /\ resp.target = FirstPage) =>
                   Returned(resp) = DOMAIN subs
             /\ resp.op \in ExportOps => Returned(resp) = DOMAIN subs
             /\ (resp.op = "GetSubmissions2" /\ resp.target = FirstPage) =>
                   Returned(resp) = {id \in DOMAIN subs : Exists(fields, subs[id].field_id)}

\* An observer has listed their submissions while the store also holds one of
\* another owner.
C2_Witness ==
    /\ resp.op \in ListOps
    /\ resp.ran
    /\ resp.ctx.user_role = "observer"
    /\ Returned(resp) /= {}
    /\ \E id \in DOMAIN subs : subs[id].user_id /= resp.ctx.user_id

\* C3: every field GetFields returns to a non-admin caller has owner_id equal
\* to the caller's id.
C3_OwnFieldsOnly ==
    (resp.op = "GetFields" /\ resp.ran /\ resp.ctx.user_role /= "admin") =>
       \A i \in DOMAIN resp.data : resp.data[i].owner_id = resp.ctx.user_id

\* The keys of a stored record an Update must leave alone.
ProtectedKeys(op) ==
    CASE op = "UpdateSubmission" -> {"id", "user_id", "created_at"}
      [] op = "UpdateField" -> {"id", "owner_id", "created_at"}
      [] op = "UpdateUser" -> {"id", "created_at"}

CollectionOf(op) ==
    CASE op = "UpdateSubmission" -> subs
      [] op = "UpdateField" -> fields
      [] op = "UpdateUser" -> users

\* What C4 asks of a step, given the response r it writes.
C4_ProtectedKeysStep ==
    \A r \in {resp'} :
       (r.op \in UpdateOps /\ r.ran /\ Exists(CollectionOf(r.op), r.target)) =>
          /\ Exists(CollectionOf(r.op)', r.target)
          /\ \A k \in ProtectedKeys(r.op) :
                CollectionOf(r.op)'[r.target][k] = CollectionOf(r.op)[r.target][k]
          /\ r.status = 500 =>
                \A i \in DOMAIN r.data : r.data[i].Path \notin ProtectedKeys(r.op)

\* C4: across every Update call on a stored record the record stays stored
\* with the same id, owner id and created_at, and the update list the handler
\* hands to the store names none of these keys, whatever the payload.
C4_ProtectedKeys == [][C4_ProtectedKeysStep]_vars

\* The owner's update of a stored submission with the payload that names the
\* protected keys has gone through the handler.
C4_Witness ==
    /\ resp.op = "UpdateSubmission"
    /\ resp.status = 500
    /\ Exists(subs, resp.target)
    /\ subs[resp.target].user_id = resp.ctx.user_id
    /\ \E i \in DOMAIN resp.data : resp.data[i].Path = "notes"

\* What C5 asks of a step, given the response r it writes.
C5_AppendStep ==
    \A r \in {resp'} :
       IF r.op = "UploadImage" /\ r.status = 200 /\ Exists(subs, r.target)
       THEN /\ Exists(subs', r.target)
            /\ subs'[r.target].images = Append(subs[r.target].images, r.data.url)
            /\ r.data.url \notin Range(subs[r.target].images)
            /\ \A id \in DOMAIN subs \ {r.target} : subs'[id] = subs[id]
       ELSE \A id \in DOMAIN subs \cap DOMAIN subs' :
               subs'[id].images = subs[id].images

\* C5: the step that answers an upload to a stored submission with 200
\* appends that upload's URL, and nothing else, to the image list stored at
\* that moment, and the URL was not in the list; no other step changes the
\* image list of a submission that stays stored. So N successful uploads
\* leave exactly N more entries, in every interleaving.
C5_NoLostAppend == [][C5_AppendStep]_vars

\* Two uploads to the same submission overlap: one has committed its append
\* while the other still holds the document it read before that commit.
C5_Witness ==
    \E u \in uploads :
       /\ u.pc = "commit"
       /\ Exists(subs, u.submissionID)
       /\ Len(subs[u.submissionID].images) = Len(u.read.images) + 1

\* claims carry the identity of user.
SameIdentity(claims, user) ==
    /\ claims.user_id = user.id
    /\ claims.email = user.email
    /\ claims.role = user.role

\* C6: the access token GenerateTokens makes for a user is accepted by
\* ValidateToken until its expiry, and the claims returned carry the user's id,
\* email and role: for every stored user and every hour of issue up to now,
\* and for the token a login or refresh has just answered with.
C6_IssueThenValidate ==
    /\ \A id \in DOMAIN users : \A t \in 0..now :
          LET v == ValidateToken(GenerateTokensAt(users[id], t).access)
          IN now < t + AccessTTL => ~v.err /\ SameIdentity(v.claims, users[id])
    /\ (resp.op \in PublicOps /\ resp.status = 200) =>
          LET v == ValidateToken(resp.data.access_token)
          IN ~v.err /\ SameIdentity(v.claims, resp.data.user)

\* A login has just created an account and answered with its tokens.
C6_Witness ==
    /\ resp.op = "GoogleLogin"
    /\ resp.status = 200
    /\ resp.data.user.email = "c@example.com"
    /\ now = 1

\* The token a header carries after "Bearer ", <<>> when it has no such prefix.
Bearer(authHeader) ==
    IF authHeader /= <<>> /\ Head(authHeader) = "Bearer " THEN Tail(authHeader) ELSE <<>>

WellFormed(t) == Len(t) = 3

\* The requests the gate must refuse, by the header they carry.
NoHeader(h) == h = <<>>
NoBearerPrefix(h) == h /= <<>> /\ Head(h) /= "Bearer "
OtherKey(h) == WellFormed(Bearer(h)) /\ Bearer(h)[3].key /= jwtSecret
Expired(h) == WellFormed(Bearer(h)) /\ Bearer(h)[2].exp <= now
UserGone(h) ==
    /\ Bearer(h) \in Held
    /\ now < Bearer(h)[2].exp
    /\ ~Exists(users, Bearer(h)[2].user_id)

\* C7, the gate: a header that is absent, lacks the Bearer prefix, carries a
\* token signed under another key, an expired token, or a valid token of a
\* user no longer stored, is refused with 401 unauthorized.
C7_Refused ==
    \A h \in Headers :
       (NoHeader(h) \/ NoBearerPrefix(h) \/ OtherKey(h) \/ Expired(h) \/ UserGone(h)) =>
          LET a == RequireAuth(h)
          IN ~a.ok /\ a.status = 401 /\ a.error = "unauthorized"

\* C7, the routes: on a protected route the handler has run only for a
\* header the gate accepted, with the stored user, their id and their role in
\* the context; otherwise the answer is the gate's 401 and nothing is written.
C7_RouteStep ==
    \A r \in {resp'} :
       (r.op \notin PublicOps \cup {"none"}) =>
          IF r.ran
          THEN /\ \E h \in Headers : RequireAuth(h).ok /\ RequireAuth(h).ctx = r.ctx
               /\ Exists(users, r.ctx.user_id)
               /\ r.ctx.user = users[r.ctx.user_id]
               /\ r.ctx.user_id = r.ctx.user.id
               /\ r.ctx.user_role = r.ctx.user.role
          ELSE /\ r.status = 401
               /\ r.error = "unauthorized"
               /\ UNCHANGED <<users, fields, subs, blobs, issued, idCounter, uploads>>

\* C7: RequireAuth answers 401 to each kind of bad request named and the
\* handler of a protected route never runs for one; it runs only with the
\* resolved user, user id and role in the request context.
C7_Gate == []C7_Refused /\ [][C7_RouteStep]_vars

\* The gate has refused a request on a record route while the requests at
\* hand include an expired token, a token under another key and the unexpired
\* token of a deleted user.
C7_Witness ==
    /\ resp.op = "DeleteSubmission"
    /\ ~resp.ran
    /\ resp.status = 401
    /\ \E h \in Headers : UserGone(h)
    /\ \E h \in Headers : Expired(h) /\ ~OtherKey(h)
    /\ \E h \in Headers : OtherKey(h)

\* What C8 asks of a step, given the response r it writes.
C8_CreateStep ==
    \A r \in {resp'} :
       (r.op \in CreateOps /\ r.status = 201) =>
          IF r.op = "CreateField"
          THEN /\ ~Exists(fields, r.target)
               /\ \A id \in DOMAIN fields : Exists(fields', id) /\ fields'[id] = fields[id]
               /\ fields'[r.target].id = r.target
               /\ GetFieldAs(r.ctx, r.target)'.status = 200
               /\ GetFieldAs(r.ctx, r.target)'.data = r.data
          ELSE /\ ~Exists(subs, r.target)
               /\ \A id \in DOMAIN subs : Exists(subs', id) /\ subs'[id] = subs[id]
               /\ subs'[r.target].id = r.target
               /\ GetSubmissionAs(r.ctx, r.target)'.status = 200
               /\ GetSubmissionAs(r.ctx, r.target)'.data = r.data
               /\ GetSubmission2As(r.ctx, r.target)'.status = 200
               /\ GetSubmission2As(r.ctx, r.target)'.data.id = r.target

\* C8: a Create answered 201 stores the record under an id no record of the
\* collection had, leaving the others as they were, and the Read of that id
\* by the creator right after it answers 200 with the record.
C8_CreateThenRead == [][C8_CreateStep]_vars

\* What C9 asks of a step, given the response r it writes.
C9_EndToEndStep ==
    \A r \in {resp'} :
       (r.op = "CreateSubmission" /\ r.status = 201) =>
          \A h \in Headers : \A f \in DOMAIN fields : \A req \in SubmissionRequests :
             CreateSubmission(h, f, req) =>
                /\ \A g \in {GetSubmissionAs(r.ctx, r.target)',
                             GetSubmission2As(r.ctx, r.target)'} :
                      /\ g.status = 200
                      /\ g.data.status = "submitted"
                      /\ g.data.growth_stage = req.growth_stage
                      /\ g.data.field_id = f
                      /\ g.data.user_id = RequireAuth(h).ctx.user_id
                /\ GetSubmission2As(r.ctx, r.target)'.data.field = fields[f]

\* C9: when a user creates a submission on a stored field with growth stage
\* G, GetSubmission (in either copy of the handler) by that user for the id
\* returned answers 200 with status "submitted", growth stage G, that field
\* id and the user's id as user_id.
C9_EndToEnd == [][C9_EndToEndStep]_vars

\* A user has created a field, then a submission on it, and has read the
\* submission back with its field.
C9_Witness ==
    /\ resp.op = "GetSubmission2"
    /\ resp.status = 200
    /\ resp.data.growth_stage = "Tillering"
    /\ resp.data.user_id = resp.ctx.user_id
    /\ resp.data.field.id /= FieldID
    /\ resp.data.field.owner_id = resp.ctx.user_id

Dangling(id) == Exists(subs, id) /\ ~Exists(fields, subs[id].field_id)

\* C10: for a stored submission whose field_id names no stored field,
\* GetSubmission by the owner answers 200 with the submission, and the
\* owner's unfiltered first page of GetSubmissions includes it, in both
\* copies of the handler.
C10_DanglingTolerated ==
    /\ (resp.ran /\ resp.op \in {"GetSubmission", "GetSubmission2"}
          /\ Dangling(resp.target)
          /\ subs[resp.target].user_id = resp.ctx.user_id) =>
          resp.status = 200 /\ resp.data.id = resp.target
    /\ (resp.ran /\ resp.op \in ListOps /\ resp.target = FirstPage) =>
          \A id \in DOMAIN subs :
             (Dangling(id) /\ subs[id].user_id = resp.ctx.user_id) =>
                id \in Returned(resp)

\* What C11 asks of a step, given the response r it writes.
C11_CreatedSubmittedStep ==
    \A r \in {resp'} :
       (r.op = "CreateSubmission" /\ r.status = 201) =>
          /\ Exists(subs', r.target)
          /\ subs'[r.target].status = "submitted"

\* C11: in every state reached by Create, Update, image upload and Delete
\* requests the status of every stored submission is one of submitted,
\* under_review, approved, rejected, and the step that answers a Create with
\* 201 stores the submission with status submitted.
C11_StatusInvariant ==
    /\ [](\A id \in DOMAIN subs : subs[id].status \in Statuses)
    /\ [][C11_CreatedSubmittedStep]_vars

\* The owner of a created submission that has an image has asked for a
\* status that is none of the four.
C11_Witness ==
    /\ resp.op = "UpdateSubmission"
    /\ resp.ran
    /\ resp.target /= SubmissionID
    /\ Exists(subs, resp.target)
    /\ subs[resp.target].user_id = resp.ctx.user_id
    /\ subs[resp.target].images /= <<>>
    /\ \E i \in DOMAIN resp.data :
          resp.data[i].Path = "status" /\ resp.data[i].Value \notin Statuses

\* The position of a column in the header row.
Column(name) == CHOOSE i \in DOMAIN CSVHeader : CSVHeader[i] = name

\* C12: an export over the k submissions the caller can access has the
\* header row ID,Date,Location,Growth Stage,Observer,Status and k rows, one
\* per submission, and every row has one value per header column, in the
\* header's order: the id under ID, the growth stage under Growth Stage, the
\* observer name under Observer, the status under Status.
C12_ExportColumns ==
    (resp.ran /\ resp.op \in ExportOps) =>
       /\ resp.data.header = <<"ID", "Date", "Location", "Growth Stage", "Observer", "Status">>
       /\ Len(resp.data.rows) = Cardinality(OwnedBy(resp.ctx.user))
       /\ {resp.data.rows[i][1] : i \in DOMAIN resp.data.rows} = OwnedBy(resp.ctx.user)
       /\ \A i \in DOMAIN resp.data.rows :
             LET row == resp.data.rows[i]
                 s == subs[row[1]]
             IN /\ Len(row) = Len(resp.data.header)
                /\ row[Column("ID")] = s.id
                /\ row[Column("Growth Stage")] = s.growth_stage
                /\ row[Column("Observer")] = s.observer_name
                /\ row[Column("Status")] = s.status

\* What C13 asks of a step, given the response r it writes.
C13_ResolveStep ==
    \A r \in {resp'} :
       (r.op = "GoogleLogin" /\ r.status = 200) =>
          LET known == {id \in DOMAIN users : users[id].email = r.data.user.email}
          IN IF known = {}
             THEN /\ r.target \notin DOMAIN users
                  /\ DOMAIN users' = DOMAIN users \cup {r.target}
                  /\ users'[r.target].email = r.data.user.email
                  /\ users'[r.target].role = "observer"
                  /\ r.data.user.role = "observer"
             ELSE /\ DOMAIN users' = DOMAIN users
                  /\ known = {r.target}
                  /\ r.data.user.id = r.target

\* C13: a login whose email matches no stored user stores exactly one new
\* user, with role observer; a login whose email matches a stored user
\* answers with that user's id and stores no new user; so no two stored users
\* ever share an email, however many times the same identity logs in.
C13_ResolveOnce ==
    /\ [](\A a, b \in DOMAIN users : users[a].email = users[b].email => a = b)
    /\ [][C13_ResolveStep]_vars

\* The account a login created an hour ago has logged in again.
C13_Witness ==
    /\ resp.op = "GoogleLogin"
    /\ resp.status = 200
    /\ resp.target \notin DOMAIN Seeded
    /\ resp.data.user.created_at < now
    /\ resp.data.user.last_login_at = now

\* What C14 asks of a step, given the response r it writes.
C14_RoleStep ==
    \A r \in {resp'} :
       /\ \A id \in DOMAIN users \cap DOMAIN users' :
             users'[id].role /= users[id].role =>
                /\ r.op = "UpdateUser"
                /\ r.ran
                /\ r.ctx.user_role = "admin"
                /\ r.target = id
       /\ (r.op = "UpdateUser" /\ r.ran /\ r.ctx.user_role /= "admin" /\ r.status = 500) =>
             \A i \in DOMAIN r.data : r.data[i].Path /= "role"

\* C14: the role of a user that stays stored changes only in the step of an
\* UpdateUser on that user by a caller whose role is admin; the update list
\* an UpdateUser by any other caller hands to the store does not name role,
\* whatever the payload; login and refresh leave every stored role as it was.
C14_RoleByAdminOnly == [][C14_RoleStep]_vars

\* An observer has asked for the admin role on their own record.
C14_Witness ==
    /\ resp.op = "UpdateUser"
    /\ resp.ran
    /\ resp.ctx.user_role = "observer"
    /\ resp.target = resp.ctx.user_id
    /\ resp.status = 500
    /\ \E i \in DOMAIN resp.data : resp.data[i].Path = "picture"

\* What C15 asks of a step, given the response r it writes.
C15_LogoutStep ==
    \A r \in {resp'} :
       (r.op = "Logout" /\ r.ran) =>
          /\ r.status = 200
          /\ UNCHANGED <<users, fields, subs, blobs, issued, now, idCounter, uploads>>
          /\ \A h \in Headers : RequireAuth(h)' = RequireAuth(h)
          /\ \E h \in Headers : RequireAuth(h)'.ok /\ RequireAuth(h)'.ctx = r.ctx

\* Every token a client holds that has not expired, of a user still stored,
\* passes the gate: whether or not it has been logged out.
C15_StillAccepted ==
    \A h \in Headers :
       (/\ Bearer(h) \in Held
        /\ now < Bearer(h)[2].exp
        /\ Exists(users, Bearer(h)[2].user_id)) => RequireAuth(h).ok

\* C15: a Logout that succeeds changes no server state, so the gate answers
\* every header after it as before it and still accepts the token that was
\* logged out; a held token is accepted on a protected route for as long as
\* it has not expired and its user is stored.
C15_LogoutKeepsToken == []C15_StillAccepted /\ [][C15_LogoutStep]_vars

\* A Logout has succeeded and the token it was made with still passes the gate.
C15_Witness ==
    /\ resp.op = "Logout"
    /\ resp.status = 200
    /\ \E h \in Headers : RequireAuth(h).ok /\ RequireAuth(h).ctx = resp.ctx

\* The error kinds of the taxonomy, each with the one status fixed for it.
StatusOfKind ==
    [invalid_request |-> 400, unauthorized |-> 401, forbidden |-> 403,
     not_found |-> 404, invalid_file_type |-> 400, internal_error |-> 500]

\* C16: every error response, of a handler or of the gate, carries one of the
\* kinds invalid_request, unauthorized, forbidden, not_found,
\* invalid_file_type, internal_error, and the status fixed for that kind.
C16_ErrorTaxonomy ==
    resp.status >= 400 =>
       /\ resp.error \in DOMAIN StatusOfKind
       /\ resp.status = StatusOfKind[resp.error]

\* The file name ends in one of the four extensions.
EndsInAllowed(file) ==
    \E ext \in {<<".", "j", "p", "g">>, <<".", "j", "p", "e", "g">>,
                <<".", "p", "n", "g">>, <<".", "w", "e", "b", "p">>} :
       /\ Len(file) >= Len(ext)
       /\ \A i \in 1..Len(ext) : file[Len(file) - Len(ext) + i] = ext[i]

\* What C17 asks of a step, given the response r it writes.
C17_FileTypeStep ==
    \A r \in {resp'} :
       (Idle /\ (r.op = "UploadImage" \/ blobs' /= blobs)) =>
          \A h \in Headers : \A id \in SubmissionIDs \cup {ShortID, TempID} :
             \A file \in FileNames \ {<<>>} :
                (RequireAuth(h).ok /\ UploadImage(h, id, file)) =>
                   IF EndsInAllowed(file)
                   THEN r.error /= "invalid_file_type"
                   ELSE /\ r.status = 400
                        /\ r.error = "invalid_file_type"
                        /\ UNCHANGED <<blobs, subs, uploads>>

Updated(doc, d, protected) ==
    [k \in DOMAIN doc \cup (DOMAIN d \ protected) \cup {"updated_at"} |->
        IF k = "updated_at" THEN now
        ELSE IF k \in DOMAIN d \ protected THEN d[k]
        ELSE doc[k]]

\* What C18 asks of a step, given the response r it writes.
C18_UpdateFrameStep ==
    \A r \in {resp'} :
       /\ (r.op = "UpdateSubmission" /\ r.ran /\ Exists(subs, r.target)
              /\ ~AccessDenied(r.ctx.user, subs[r.target].user_id)) =>
             \A h \in Headers : \A d \in SubmissionPayloads :
                (RequireAuth(h).ok /\ UpdateSubmission(h, r.target, d)) =>
                   /\ r.status = 200
                   /\ subs' = Set(subs, r.target,
                                  Updated(subs[r.target], d, ProtectedKeys(r.op)))
       /\ (r.op = "UpdateField" /\ r.ran /\ Exists(fields, r.target)
              /\ ~AccessDenied(r.ctx.user, fields[r.target].owner_id)) =>
             \A h \in Headers : \A d \in FieldPayloads :
                (RequireAuth(h).ok /\ UpdateField(h, r.target, d)) =>
                   /\ r.status = 200
                   /\ fields' = Set(fields, r.target,
                                    Updated(fields[r.target], d, ProtectedKeys(r.op)))

C19_DeleteStep ==
    \A r \in {resp'} :
       /\ \A id \in DOMAIN subs' \ DOMAIN subs :
             /\ r.op = "CreateSubmission"
             /\ r.status = 201
             /\ id = r.target
             /\ id = GenerateID("s")
       /\ (r.op = "DeleteSubmission" /\ r.status = 200) =>
             /\ Exists(subs, r.target)
             /\ ~Exists(subs', r.target)
             /\ GetSubmissionAs(r.ctx, r.target)'.status = 404

\* A read of an id that is not stored answers 404 not_found, and a list
\* carries stored submissions only.
C19_GoneIsGone ==
    /\ (resp.op = "GetSubmission" /\ resp.ran /\ ~Exists(subs, resp.target)) =>
          resp.status = 404 /\ resp.error = "not_found"
    /\ (resp.op \in ListOps /\ resp.ran) => Returned(resp) \subseteq DOMAIN subs

\* C19: the step that answers DeleteSubmission of X with 200 removes X; no
\* later step stores a document under X again, whatever updates and uploads
\* for X were in flight past their read of X (the only step that adds a
\* document is a Create, under an id never given before); so every later
\* GetSubmission of X answers 404 not_found and no list carries X.
C19_DeletePermanent == []C19_GoneIsGone /\ [][C19_DeleteStep]_vars

\* The stored submission has been deleted and read again, 404, while an update
\* and an upload that read it before the delete are still in flight.
C19_Witness ==
    /\ resp.op = "GetSubmission"
    /\ resp.status = 404
    /\ resp.target = SubmissionID
    /\ \E u \in uploads : u.pc = "update" /\ u.submissionID = SubmissionID
    /\ \E u \in uploads : u.pc = "commit" /\ u.submissionID = SubmissionID

\* The stored submissions a caller may see that match the filters given.
Matching(user, status, fieldID) ==
    {id \in DOMAIN subs :
        /\ user.role = "admin" \/ subs[id].user_id = user.id
        /\ status /= "" => subs[id].status = status
        /\ fieldID /= <<>> => subs[id].field_id = fieldID}

\* The number of entries at positions (p-1)*l+1 .. p*l of a list of n.
OnPage(n, p, l) ==
    IF n <= (p - 1) * l THEN 0
    ELSE IF n - (p - 1) * l < l THEN n - (p - 1) * l ELSE l

\* C20: GetSubmissions with page p, limit l, a status filter and/or a
\* field_id filter answers with submissions the caller may see that match
\* every filter given, each once, as many as lie at positions (p-1)*l+1 .. p*l
\* of the matching ones: at most l, and fewer than l only when none lies
\* beyond the page; the newest come first.
C20_FilterAndPage ==
    (resp.ran /\ resp.op \in ListOps) =>
       LET page == resp.target[1]
           limit == resp.target[2]
           matching == Matching(resp.ctx.user, resp.target[3], resp.target[4])
           got == resp.data.submissions
       IN /\ \A i \in DOMAIN got : got[i].id \in matching
          /\ \A i, j \in DOMAIN got : got[i].id = got[j].id => i = j
          /\ Len(got) = OnPage(Cardinality(matching), page, limit)
          /\ resp.op = "GetSubmissions" =>
                /\ \A i, j \in DOMAIN got : i < j => got[i].created_at >= got[j].created_at
                /\ page = 1 => \A id \in matching \ Returned(resp) : \A i \in DOMAIN got :
                                  subs[id].created_at <= got[i].created_at

\* The sum of the counts of a map.
RECURSIVE SumOf(_)
SumOf(f) ==
    IF DOMAIN f = {} THEN 0
    ELSE LET k == CHOOSE x \in DOMAIN f : TRUE
         IN f[k] + SumOf([x \in DOMAIN f \ {k} |-> f[x]])

\* C21: the dashboard answers with total_submissions the number of stored
\* submissions the caller may see (their own, all for an admin), with counts
\* by status and by stage that each sum to that total and count the
\* submissions of each value, and with at most 5 recent submissions, each
\* once, which are submissions the caller may see and are no older than any
\* one left out: 5 of them whenever there are that many.
C21_Dashboard ==
    (resp.op = "GetDashboardData" /\ resp.ran) =>
       LET accessible == Matching(resp.ctx.user, "", <<>>)
           d == resp.data
           recent == {d.recent_submissions[i].id : i \in DOMAIN d.recent_submissions}
       IN /\ resp.status = 200
          /\ d.total_submissions = Cardinality(accessible)
          /\ SumOf(d.submissions_by_status) = d.total_submissions
          /\ SumOf(d.submissions_by_stage) = d.total_submissions
          /\ \A v \in DOMAIN d.submissions_by_stage :
                d.submissions_by_stage[v] =
                   Cardinality({id \in accessible : subs[id].growth_stage = v})
          /\ Len(d.recent_submissions) <= 5
          /\ Len(d.recent_submissions) = Cardinality(recent)
          /\ Cardinality(accessible) >= 5 => Len(d.recent_submissions) = 5
          /\ Cardinality(accessible) < 5 => recent = accessible
          /\ recent \subseteq accessible
          /\ \A i \in DOMAIN d.recent_submissions :
                d.recent_submissions[i] = subs[d.recent_submissions[i].id]
          /\ \A id \in accessible \ recent : \A i \in DOMAIN d.recent_submissions :
                subs[id].created_at <= d.recent_submissions[i].created_at

\* An observer with more than five submissions, of more than one stage, has
\* read the dashboard while the store also holds a submission of another user.
C21_Witness ==
    /\ resp.op = "GetDashboardData"
    /\ resp.ran
    /\ resp.ctx.user_role = "observer"
    /\ resp.data.total_submissions > 5
    /\ Cardinality(DOMAIN resp.data.submissions_by_stage) > 1
    /\ \E id \in DOMAIN subs : subs[id].user_id /= resp.ctx.user_id

\* What C22 asks of a step, given the response r it writes.
C22_DeleteUserStep ==
    \A r \in {resp'} :
       /\ (r.op = "DeleteUser" /\ r.ran) =>
             IF r.ctx.user.role /= "admin"
             THEN /\ r.status = 403
                  /\ r.error = "forbidden"
                  /\ UNCHANGED <<users, fields, subs, blobs>>
             ELSE IF r.target = r.ctx.user.id
             THEN /\ r.status = 400
                  /\ r.error = "invalid_request"
                  /\ UNCHANGED <<users, fields, subs, blobs>>
             ELSE /\ r.status = 200
                  /\ DOMAIN users' = DOMAIN users \ {r.target}
                  /\ \A id \in DOMAIN users' : users'[id] = users[id]
       /\ DOMAIN users \ DOMAIN users' /= {} =>
             /\ r.op = "DeleteUser"
             /\ r.ran
             /\ r.ctx.user.role = "admin"
             /\ Exists(users', r.ctx.user.id)
             /\ DOMAIN users \ DOMAIN users' = {r.target}

\* C22: DeleteUser answers 403 forbidden to a caller who is not an admin and
\* 400 invalid_request to an admin who names their own id, and the store is
\* as before in both cases; an admin who names another id is answered 200 and
\* that record alone is removed; no other step removes a user.
C22_DeleteUserByAdmin == [][C22_DeleteUserStep]_vars

\* An observer has been refused the deletion of their own account after the
\* admin has deleted another observer's.
C22_Witness ==
    /\ resp.op = "DeleteUser"
    /\ resp.status = 403
    /\ resp.target = resp.ctx.user_id
    /\ DOMAIN Seeded \ DOMAIN users /= {}

\* The object was uploaded for a stored submission of the user: its name
\* starts with that submission's id.
UploadedFor(name, user) ==
    \E id \in DOMAIN subs :
       /\ subs[id].user_id = user.id
       /\ Len(name) > Len(id)
       /\ SubSeq(name, 1, Len(id) + 1) = id \o <<"/">>

\* What C23 asks of a step, given the response r it writes.
C23_DeleteImageStep ==
    \A r \in {resp'} :
       (r.op = "DeleteImage" /\ r.ran /\ r.target \in blobs) =>
          IF r.ctx.user.role = "admin" \/ UploadedFor(r.target, r.ctx.user)
          THEN /\ r.status = 200
               /\ blobs' = blobs \ {r.target}
          ELSE /\ r.status = 403
               /\ r.error = "forbidden"
               /\ UNCHANGED blobs

\* C23: DeleteImage of a stored object removes it when the caller is an
\* admin or the owner of the submission it was uploaded for, and answers 403
\* forbidden, leaving the bucket as it was, for every other caller.
C23_DeleteImageByOwner == [][C23_DeleteImageStep]_vars

\* What C24 asks of a step, given the response r it writes.
C24_OwnerWritesStep ==
    \A r \in {resp'} :
       \A id \in DOMAIN subs :
          (~Exists(subs', id) \/ subs'[id] /= subs[id]) =>
             /\ r.ran
             /\ r.ctx.user.role = "admin" \/ r.ctx.user.id = subs[id].user_id

\* C24: a step that changes or removes a stored submission, its image list
\* included, answers a request whose caller is the submission's owner or an
\* admin.
C24_OwnerWrites == [][C24_OwnerWritesStep]_vars

\* C25: no two stored users have the same email, also when logins for the
\* same unseen email look the email up before any of them writes.
C25_UniqueEmail ==
    \A a, b \in DOMAIN users : users[a].email = users[b].email => a = b

\* C26: the update list of UpdateSubmission, UpdateField and UpdateUser names
\* every field path once, so an Update that passes the gate, finds the
\* document and passes the access check is answered 200.
C26_UpdateWritten ==
    (resp.op \in UpdateOps /\ resp.ran /\ resp.status \notin {400, 403, 404}) =>
       /\ resp.status = 200
       /\ resp.data = DataTo(CollectionOf(resp.op)[resp.target],
                             resp.data)

\* What C27 asks of a step that writes the response r of an upload that did
\* not succeed: the step adds no object, and the object name of the request
\* that ends with it is not in the bucket.
C27_FailedUploadStep ==
    \A r \in {resp'} :
       (Idle /\ r.op = "UploadImage" /\ r.ran /\ r.status /= 200) =>
          /\ blobs' = blobs
          /\ \A u \in uploads \ uploads' : u.filename \notin blobs'

\* C27: an upload that is not answered with success leaves the blob store
\* holding the objects it held before the request.
C27_FailedUploadLeavesNoBlob == [][C27_FailedUploadStep]_vars

\* What C28 asks of a step that commits an append and writes the response r.
C28_AppendFrameStep ==
    \A r \in {resp'} :
       (Idle /\ r.op = "UploadImage" /\ r.status = 200 /\ subs' /= subs) =>
          /\ DOMAIN subs' = DOMAIN subs
          /\ \A id \in DOMAIN subs \ {r.target} : subs'[id] = subs[id]
          /\ subs'[r.target].images = Append(subs[r.target].images, r.data.url)
          /\ \A k \in DOMAIN subs[r.target] \ {"images", "updated_at"} :
                /\ k \in DOMAIN subs'[r.target]
                /\ subs'[r.target][k] = subs[r.target][k]

C29_CurrentRecord ==
    \A h \in Headers :
       LET t == Bearer(h)
           a == RequireAuth(h)
       IN WellFormed(t) =>
             IF Exists(users, t[2].user_id)
             THEN a.ok => /\ a.ctx.user = users[t[2].user_id]
                          /\ a.ctx.user_role = users[t[2].user_id].role
             ELSE ~a.ok /\ a.status = 401 /\ a.error = "unauthorized"

\* C29, the handlers: the role a handler has decided on is the role stored
\* for the caller when the request was served, and an operation kept for
\* administrators has gone through only for a caller stored as admin.
C29_AuthorizedStep ==
    \A r \in {resp'} :
       (Idle /\ r.ran /\ r.ctx /= NoCtx) =>
          /\ Exists(users, r.ctx.user_id)
          /\ r.ctx.user_role = users[r.ctx.user_id].role
          /\ (r.op = "DeleteUser" /\ r.status = 200) =>
                users[r.ctx.user_id].role = "admin"

C30_BearerShortLived ==
    \A h \in Headers :
       LET t == Bearer(h)
           a == RequireAuth(h)
       IN /\ a.ok => t[2].exp - t[2].iat <= AccessTTL
          /\ t \in Refresh => ~a.ok /\ a.status = 401

====
